---- MODULE Spec2Model ----
(***************************************************************************)
(* SGSIM: the time/frequency grid (DomainConfig), the parametrised model   *)
(* state (ModelConfig), the statistics engine (ModelCore) and the Monte    *)
(* Carlo synthesizer (StochasticModel) as one state machine over a single  *)
(* model instance.                                                         *)
(*                                                                         *)
(* Numbers.  A real number is a record [num, den, tau] standing for        *)
(* (num/den) * (2*pi)^tau, kept in lowest terms; 0/0 is NaN and x/0 is Inf,*)
(* as numpy produces them.  Time is counted in whole ticks of the time     *)
(* unit, so dt and the samples of t are integers.                          *)
(*                                                                         *)
(* Python's None and a missing instance attribute are modelled by a        *)
(* record [set |-> FALSE, val |-> <<>>]; [set |-> TRUE, val |-> v] holds v.*)
(***************************************************************************)
EXTENDS Integers, Sequences, FiniteSets, TLC

\* ------------------------------------------------------------------ bounds
MaxNpts == 3
MaxDt == 2
MaxSteps == 3
MaxSimSteps == 4
MaxN == 2
MaxSeed == 1
MaxCount == 2
MaxFileSteps == 7
MaxMotionSteps == 3
MaxTn == 5

\* ------------------------------------------------------------------ numbers
RECURSIVE GCD(_, _)
GCD(a, b) == IF b = 0 THEN a ELSE GCD(b, a % b)

Abs(x) == IF x < 0 THEN -x ELSE x

NaN == [num |-> 0, den |-> 0, tau |-> 0]
Inf == [num |-> 1, den |-> 0, tau |-> 0]
Zero == [num |-> 0, den |-> 1, tau |-> 0]

\* (n/d) * (2*pi)^k in lowest terms, positive denominator
Num(n, d, k) ==
    IF d = 0 THEN (IF n = 0 THEN NaN ELSE Inf)
    ELSE IF n = 0 THEN Zero
    ELSE LET g == GCD(Abs(n), Abs(d))
             s == IF d < 0 THEN -1 ELSE 1
         IN  [num |-> (s * n) \div g, den |-> (s * d) \div g, tau |-> k]

Times2Pi(v) == Num(v.num, v.den, v.tau + 1)

RECURSIVE IPow(_, _)
IPow(b, e) == IF e = 0 THEN 1 ELSE b * IPow(b, e - 1)

\* v ** e for a positive integer e, and v ** -e
Pow(v, e) == Num(IPow(v.num, e), IPow(v.den, e), v.tau * e)
PowNeg(v, e) == Num(IPow(v.den, e), IPow(v.num, e), -(v.tau * e))

Zeros(n) == [i \in 1..n |-> Zero]
AllZero(a) == \A i \in 1..Len(a) : a[i] = Zero

\* ------------------------------------------------------------------ None
None == [set |-> FALSE, val |-> <<>>]
Some(v) == [set |-> TRUE, val |-> v]

\* ------------------------------------------------------------------ state
VARIABLES
    npts,         \* DomainConfig._npts
    npts_numpy,   \* TRUE iff _npts is a numpy integer, not a Python int
    dt,           \* DomainConfig._dt
    cache,        \* the ten cached arrays of DomainConfig, each None or a value
    ncomp,        \* per cached array: lazy computations since the last _reset_cache
    funcs,        \* ModelConfig.mdl_func, wu_func, zu_func, wl_func, zl_func
    series,       \* ModelConfig._mdl, _wu, _zu, _wl, _zl
    params,       \* attributes mdl_params, ..., zl_params (missing until assigned)
    params_name,  \* attributes mdl_params_name, ..., zl_params_name
    variance,     \* attributes variance, variance_dot, variance_2dot, variance_bar, variance_2bar
    priv,         \* the arrays _fas, _ce, _mle_ac, ..., _pmnm_disp allocated by __init__
    pub,          \* attributes fas, ce, mle_ac, ..., pmnm_disp (missing until computed)
    rng,          \* StochasticModel.rng: the seed of the stream and the variates drawn from it
    seed,         \* StochasticModel._seed
    ac, vel, disp,\* attributes ac, vel, disp (missing until simulate)
    fourier,      \* the last call of the synthesis kernel in simulate
    drawn,        \* variates drawn by simulate since construction, from any stream
    heap,         \* the ensemble arrays allocated so far, by object identity
    ref,          \* which array of the heap the attributes ac, vel, disp are bound to
    held,         \* a Motion built from the model with from_model, or the model and
                  \* simulations a plot function was handed with this Motion, or None
    file,         \* the parameter file on disk, or None
    err,          \* TRUE iff the last operation raised
    stats_calls,  \* invocations of ModelCore.get_stats made by the last operation
    last,         \* the last operation and its arguments
    steps         \* operations performed so far

vars == <<npts, npts_numpy, dt, cache, ncomp, funcs, series, params, params_name, variance,
          priv, pub, rng, seed, ac, vel, disp, fourier, drawn, heap, ref, held,
          file, err, stats_calls, last, steps>>

\* the instance as one record: every method maps an instance to an instance
Self ==
    [npts |-> npts, npts_numpy |-> npts_numpy, dt |-> dt, cache |-> cache,
     ncomp |-> ncomp, funcs |-> funcs,
     series |-> series, params |-> params, params_name |-> params_name,
     variance |-> variance, priv |-> priv, pub |-> pub, rng |-> rng, seed |-> seed,
     ac |-> ac, vel |-> vel, disp |-> disp, fourier |-> fourier, drawn |-> drawn,
     heap |-> heap, ref |-> ref, err |-> FALSE, stats_calls |-> 0]

Commit(s) ==
    /\ npts' = s.npts /\ npts_numpy' = s.npts_numpy
    /\ dt' = s.dt /\ cache' = s.cache /\ ncomp' = s.ncomp
    /\ funcs' = s.funcs /\ series' = s.series /\ params' = s.params
    /\ params_name' = s.params_name /\ variance' = s.variance /\ priv' = s.priv
    /\ pub' = s.pub /\ rng' = s.rng /\ seed' = s.seed
    /\ ac' = s.ac /\ vel' = s.vel /\ disp' = s.disp /\ fourier' = s.fourier
    /\ drawn' = s.drawn /\ heap' = s.heap /\ ref' = s.ref
    /\ err' = s.err /\ stats_calls' = s.stats_calls

Holds(s) ==
    /\ npts = s.npts /\ npts_numpy = s.npts_numpy
    /\ dt = s.dt /\ cache = s.cache /\ ncomp = s.ncomp
    /\ funcs = s.funcs /\ series = s.series /\ params = s.params
    /\ params_name = s.params_name /\ variance = s.variance /\ priv = s.priv
    /\ pub = s.pub /\ rng = s.rng /\ seed = s.seed
    /\ ac = s.ac /\ vel = s.vel /\ disp = s.disp /\ fourier = s.fourier
    /\ drawn = s.drawn /\ heap = s.heap /\ ref = s.ref
    /\ err = s.err /\ stats_calls = s.stats_calls

\* an exception raised at state s: what was stored before the raise stays
Raise(s) == [s EXCEPT !.err = TRUE]

CacheNames == {"t", "freq", "freq_sim", "freq_sim_p2", "freq_mask", "tp",
               "freq_p2", "freq_p4", "freq_n2", "freq_n4"}
Quantities == {"mdl", "wu", "zu", "wl", "zl"}
Moments == {"variance", "variance_dot", "variance_2dot", "variance_bar", "variance_2bar"}
Curves == {"mle_ac", "mle_vel", "mle_disp", "mzc_ac", "mzc_vel", "mzc_disp",
           "pmnm_ac", "pmnm_vel", "pmnm_disp"}
Stats == {"fas", "ce"} \cup Curves

\* ------------------------------------------------------------------ signal_analysis axes
\* time axis: npts samples, uniform step dt, starting at 0
get_time(n, d) == [i \in 1..n |-> (i - 1) * d]

\* angular-frequency axis of an n-sample signal of step d: bin k is 2*pi*k/(n*d)
get_freq(n, d) == [i \in 1..n |-> Num(i - 1, n * d, 1)]

\* boolean selection of the bins whose frequency lies in [lo, hi]; the band is
\* given in tenths of a Hz and one tick is a hundredth of a second, so bin k
\* (stored as (num/den)*2*pi per tick) is 1000*num/den tenths of a Hz
get_freq_mask(freq, band) ==
    [i \in 1..Len(freq) |->
        /\ freq[i].den > 0
        /\ band[1] * freq[i].den <= 1000 * freq[i].num
        /\ 1000 * freq[i].num <= band[2] * freq[i].den]

\* np.arange(start, stop, step) in hundredths of a second: first value, step, length
arange(r) ==
    [start |-> r[1], step |-> r[3],
     len |-> IF r[2] > r[1] THEN (r[2] - r[1] + r[3] - 1) \div r[3] ELSE 0]

\* ------------------------------------------------------------------ DomainConfig
DefaultBand == <<1, 250>>
DefaultPeriods == <<4, 1004, 1>>

NoCache == [c \in CacheNames |-> None]
NoCount == [c \in CacheNames |-> 0]

\* _reset_cache without the line that clears _freq
_reset_cache_keeps_freq(s) ==
    [s EXCEPT !.cache = [NoCache EXCEPT !["freq"] = s.cache["freq"]],
              !.ncomp = [NoCount EXCEPT !["freq"] = s.ncomp["freq"]]]

\* _reset_cache without the lines that clear _freq_mask and _tp
_reset_cache_keeps_band(s) ==
    [s EXCEPT !.cache = [NoCache EXCEPT !["freq_mask"] = s.cache["freq_mask"],
                                        !["tp"] = s.cache["tp"]],
              !.ncomp = NoCount]

\* DomainConfig._reset_cache: every cached array back to None
_reset_cache(s) == [s EXCEPT !.cache = NoCache, !.ncomp = NoCount]

\* npts setter
set_npts(s, num_points) ==
    _reset_cache([s EXCEPT !.npts = num_points, !.npts_numpy = FALSE])

\* dt setter
set_dt(s, time_step) == _reset_cache([s EXCEPT !.dt = time_step])

Bump(k) == IF k < MaxCount THEN k + 1 ELSE k

\* a lazy computation fills one cache entry
Store(s, name, v) ==
    [s EXCEPT !.cache[name] = Some(v), !.ncomp[name] = Bump(@)]

\* least e with 2^e >= x (x >= 1): np.ceil(np.log2(x))
RECURSIVE CeilLog2(_)
CeilLog2(x) == IF x <= 1 THEN 0 ELSE 1 + CeilLog2((x + 1) \div 2)

\* the next power of two of npts itself, without the doubling
npts_sim_unpadded(n) == IF n = 0 THEN 0 ELSE IPow(2, CeilLog2(n))

\* int(2 ** np.ceil(np.log2(2 * npts))); log2(0) is -inf and 2 ** -inf is 0
npts_sim(n) == IF n = 0 THEN 0 ELSE IPow(2, CeilLog2(2 * n))

\* property t
prop_t(s) ==
    IF ~s.cache["t"].set THEN Store(s, "t", get_time(s.npts, s.dt)) ELSE s

\* property freq
prop_freq(s) ==
    IF ~s.cache["freq"].set THEN Store(s, "freq", get_freq(s.npts, s.dt)) ELSE s

\* property freq_sim
prop_freq_sim(s) ==
    IF ~s.cache["freq_sim"].set
    THEN Store(s, "freq_sim", get_freq(npts_sim(s.npts), s.dt)) ELSE s

\* freq_mask setter: reads property freq, then stores the selection
set_freq_mask(s, band) ==
    LET s1 == prop_freq(s)
    IN  [s1 EXCEPT !.cache["freq_mask"] = Some(get_freq_mask(s1.cache["freq"].val, band))]

\* property freq_mask: the default band through the setter, counted as a lazy computation
prop_freq_mask(s) ==
    IF ~s.cache["freq_mask"].set
    THEN [set_freq_mask(s, DefaultBand) EXCEPT !.ncomp["freq_mask"] = Bump(@)]
    ELSE s

\* tp setter
set_tp(s, r) == [s EXCEPT !.cache["tp"] = Some(arange(r))]

\* property tp
prop_tp(s) ==
    IF ~s.cache["tp"].set
    THEN [set_tp(s, DefaultPeriods) EXCEPT !.ncomp["tp"] = Bump(@)]
    ELSE s

\* property freq_sim_p2
prop_freq_sim_p2(s) ==
    IF ~s.cache["freq_sim_p2"].set
    THEN LET s1 == prop_freq_sim(s)
             f == s1.cache["freq_sim"].val
         IN  Store(s1, "freq_sim_p2", [i \in 1..Len(f) |-> Pow(f[i], 2)])
    ELSE s

\* property freq_p2
prop_freq_p2(s) ==
    IF ~s.cache["freq_p2"].set
    THEN LET s1 == prop_freq(s)
             f == s1.cache["freq"].val
         IN  Store(s1, "freq_p2", [i \in 1..Len(f) |-> Pow(f[i], 2)])
    ELSE s

\* property freq_p4
prop_freq_p4(s) ==
    IF ~s.cache["freq_p4"].set
    THEN LET s1 == prop_freq(s)
             f == s1.cache["freq"].val
         IN  Store(s1, "freq_p4", [i \in 1..Len(f) |-> Pow(f[i], 4)])
    ELSE s

\* property freq_n2: freq[1:] ** -2
prop_freq_n2(s) ==
    IF ~s.cache["freq_n2"].set
    THEN LET s1 == prop_freq(s)
             f == s1.cache["freq"].val
         IN  Store(s1, "freq_n2", [i \in 1..(Len(f) - 1) |-> PowNeg(f[i + 1], 2)])
    ELSE s

\* property freq_n4: freq[1:] ** -4
prop_freq_n4(s) ==
    IF ~s.cache["freq_n4"].set
    THEN LET s1 == prop_freq(s)
             f == s1.cache["freq"].val
         IN  Store(s1, "freq_n4", [i \in 1..(Len(f) - 1) |-> PowNeg(f[i + 1], 4)])
    ELSE s

\* reading one cached array by name
ReadProp(name, s) ==
    CASE name = "t" -> prop_t(s)
      [] name = "freq" -> prop_freq(s)
      [] name = "freq_sim" -> prop_freq_sim(s)
      [] name = "freq_sim_p2" -> prop_freq_sim_p2(s)
      [] name = "freq_mask" -> prop_freq_mask(s)
      [] name = "tp" -> prop_tp(s)
      [] name = "freq_p2" -> prop_freq_p2(s)
      [] name = "freq_p4" -> prop_freq_p4(s)
      [] name = "freq_n2" -> prop_freq_n2(s)
      [] OTHER -> prop_freq_n4(s)

\* ------------------------------------------------------------------ arithmetic on arrays
IsNumber(x) == "num" \in DOMAIN x

MulNum(a, b) == Num(a.num * b.num, a.den * b.den, a.tau + b.tau)

AddNum(a, b) ==
    Num(a.num * b.den + b.num * a.den, a.den * b.den, IF a.num = 0 THEN b.tau ELSE a.tau)

ScaleNum(k, a) == Num(k * a.num, a.den, a.tau)

RECURSIVE SumSq(_, _)
SumSq(a, i) == IF i = 0 THEN Zero ELSE AddNum(SumSq(a, i - 1), MulNum(a[i], a[i]))

\* ------------------------------------------------------------------ parametric_functions
FuncNames == {"linear", "constant", "beta_single", "beta_dual"}

\* linear(t, params): pf - (pf - pl) * (t / t[-1])
linear(t, p) ==
    IF Len(p) # 2 \/ Len(t) = 0
    THEN [ok |-> FALSE, result |-> <<>>, names |-> <<>>]
    ELSE [ok |-> TRUE,
          result |-> [i \in 1..Len(t) |->
                        Num(p[1] * t[Len(t)] - (p[1] - p[2]) * t[i], t[Len(t)], 0)],
          names |-> <<"pf", "pl">>]

\* constant(t, params): np.full(len(t), params[0])
constant(t, p) ==
    IF Len(p) = 0
    THEN [ok |-> FALSE, result |-> <<>>, names |-> <<>>]
    ELSE [ok |-> TRUE,
          result |-> [i \in 1..Len(t) |-> Num(p[1], 1, 0)],
          names |-> <<"pc">>]

\* 0.95 * exp(k1 * log(ti) + k2 * log(tn - ti) - log(beta) - (1 + c) * log(tn))
\* at a sample ti > 0, for 0 <= p <= 1 and c >= 0, where k2 = c * (1 - p):
\* log of a negative number is nan, log(0) is -inf, and 0 * -inf is nan
beta_term(ti, tn, k2) ==
    IF ti > tn THEN "nan"
    ELSE IF ti = tn THEN (IF k2 > 0 THEN "zero" ELSE "nan")
    ELSE "positive"

\* sqrt(Et * multi_mdl) at one sample whose density terms are given: the sum
\* with the quadratic background, which is zero at ti = tn and positive inside
envelope_at(name, ti, p, Et, terms) ==
    IF "nan" \in terms THEN NaN
    ELSE IF terms = {"zero"} \/ Et = 0 THEN Zero
    ELSE IF Et < 0 THEN NaN
    ELSE [density |-> name, t |-> ti, params |-> p]

\* beta_single(t, params): zeros_like(t) with the density written to [1:-1]
beta_single(t, p) ==
    IF Len(p) # 4
    THEN [ok |-> FALSE, result |-> <<>>, names |-> <<>>]
    ELSE [ok |-> TRUE,
          result |-> [i \in 1..Len(t) |->
                        IF i = 1 \/ i = Len(t) THEN Zero
                        ELSE envelope_at("beta_single", t[i], p, p[3],
                                {beta_term(t[i], p[4], p[2] * (1 - p[1]))})],
          names |-> <<"p1", "c1", "Et", "tn">>]

\* beta_dual(t, params): the same with two weighted Beta densities
beta_dual(t, p) ==
    IF Len(p) # 7
    THEN [ok |-> FALSE, result |-> <<>>, names |-> <<>>]
    ELSE [ok |-> TRUE,
          result |-> [i \in 1..Len(t) |->
                        IF i = 1 \/ i = Len(t) THEN Zero
                        ELSE envelope_at("beta_dual", t[i], p, p[6],
                                {beta_term(t[i], p[7], p[2] * (1 - p[1])),
                                 beta_term(t[i], p[7], p[4] * (1 - p[3]))})],
          names |-> <<"p1", "c1", "p2", "c2", "a1", "Et", "tn">>]

\* what a caller passes as a shape function and the constructor stores as given:
\* the name of a library variant as a str (the form the constructors of
\* ModelCore and StochasticModel declare and from_file passes), a function of
\* the library itself, or a callable of the caller's with the signature
\* f(t, *params) that returns the series of the variant it is named after
Tag(name) == [form |-> "str", name |-> name]
Library(name) == [form |-> "library", name |-> name]
Callable(name) == [form |-> "callable", name |-> name]

\* the result component of the library variant of a name on (t, params)
Variant(name, t, p) ==
    IF name = "linear" THEN linear(t, p)
    ELSE IF name = "constant" THEN constant(t, p)
    ELSE IF name = "beta_single" THEN beta_single(t, p)
    ELSE IF name = "beta_dual" THEN beta_dual(t, p)
    ELSE [ok |-> FALSE, result |-> <<>>, names |-> <<>>]

\* self.<q>_func(self.t, *params): a str is not callable (TypeError); a
\* library function takes (t, params), so it refuses any other number of
\* arguments, fails on a scalar params, and on a vector returns the triple
\* (result, params, params_name), which cannot be copied into the stored
\* array; a callable f(t, *params) returns its series
CallFunc(f, t, p) ==
    IF f.form = "callable" THEN Variant(f.name, t, p)
    ELSE [ok |-> FALSE, result |-> <<>>, names |-> <<>>]

\* the number of parameters a variant takes: the length of its params_name
ParamCount(f) ==
    IF f = "linear" THEN 2
    ELSE IF f = "beta_single" THEN 4
    ELSE IF f = "beta_dual" THEN 7
    ELSE 1

\* ------------------------------------------------------------------ filter_engine, signal_analysis
\* compute_stats(wu, zu, wl, zl, freq): five arrays as long as wu; sample i of
\* each moment is a function of the filter values at i and of the frequency axis
filter_engine_get_stats(wu, zu, wl, zl, freq) ==
    [m \in Moments |->
        [i \in 1..Len(wu) |->
            [moment |-> m, wu |-> wu[i], zu |-> zu[i], wl |-> wl[i], zl |-> zl[i],
             nfreq |-> Len(freq),
             fmax |-> IF Len(freq) = 0 THEN Zero ELSE freq[Len(freq)]]]]

\* compute_fas(mdl, wu, zu, wl, zl, freq): one value per frequency bin
filter_engine_get_fas(mdl, wu, zu, wl, zl, freq) ==
    [k \in 1..Len(freq) |->
        [bin |-> freq[k], mdl |-> mdl, wu |-> wu, zu |-> zu, wl |-> wl, zl |-> zl]]

\* cumulative energy: running sum of the squared series, scaled by dt
signal_analysis_get_ce(d, x) == [i \in 1..Len(x) |-> ScaleNum(d, SumSq(x, i))]

\* ------------------------------------------------------------------ ModelConfig
\* ModelConfig.__init__: twenty zero arrays of npts samples, _fas like freq
ModelConfig_init(s, fs) ==
    LET s1 == prop_freq(s)
    IN  [s1 EXCEPT
            !.funcs = fs,
            !.series = [q \in Quantities |-> Zeros(s.npts)],
            !.variance = [m \in Moments |-> Zeros(s.npts)],
            !.priv = [x \in Stats |->
                        IF x = "fas" THEN Zeros(Len(s1.cache["freq"].val))
                        ELSE Zeros(s.npts)]]

\* _reset_attributes that also discards the grid caches
_reset_attributes_and_cache(s) ==
    _reset_cache([s EXCEPT !.priv = [x \in Stats |-> Zeros(Len(s.priv[x]))],
                           !.variance = [m \in Moments |-> Zeros(Len(s.variance[m]))]])

\* ModelConfig._reset_attributes: the arrays are filled with zero in place
_reset_attributes(s) ==
    [s EXCEPT !.priv = [x \in Stats |-> Zeros(Len(s.priv[x]))],
              !.variance = [m \in Moments |-> Zeros(Len(s.variance[m]))]]

\* self._q[:] = value: numpy copies into the existing array, broadcasting a
\* one-sample value and refusing any other length
CanAssign(old, value) == Len(value) = Len(old) \/ Len(value) = 1
Assigned(old, value) ==
    [i \in 1..Len(old) |-> IF Len(value) = 1 THEN value[1] ELSE value[i]]

\* the body the five setters share: evaluate the shape function over self.t,
\* copy it into the stored array, record the parameters, scale, reset
Setter(s, q, p, angular) ==
    LET s1 == prop_t(s)
        r == CallFunc(s.funcs[q], s1.cache["t"].val, p)
    IN  IF ~r.ok \/ ~CanAssign(s.series[q], r.result)
        THEN Raise(s1)
        ELSE LET new == Assigned(s.series[q], r.result)
             IN  _reset_attributes(
                    [s1 EXCEPT !.params[q] = Some(p),
                               !.series[q] = IF angular
                                             THEN [i \in 1..Len(new) |-> Times2Pi(new[i])]
                                             ELSE new])

\* wu setter without the conversion to angular frequency
set_wu_unscaled(s, p) == Setter(s, "wu", p, FALSE)

set_mdl(s, p) == Setter(s, "mdl", p, FALSE)
set_wu(s, p) == Setter(s, "wu", p, TRUE)
set_wl(s, p) == Setter(s, "wl", p, TRUE)
set_zu(s, p) == Setter(s, "zu", p, FALSE)
set_zl(s, p) == Setter(s, "zl", p, FALSE)

\* ------------------------------------------------------------------ ModelCore
\* get_stats: the five moments are rebound to the engine's result
get_stats(s) ==
    LET s1 == prop_freq(s)
    IN  [s1 EXCEPT !.variance =
            filter_engine_get_stats(s.series["wu"], s.series["zu"], s.series["wl"],
                                    s.series["zl"], s1.cache["freq"].val),
                   !.stats_calls = @ + 1]

\* get_fas: the result is bound to the attribute fas
get_fas(s) ==
    LET s1 == prop_freq(s)
    IN  [s1 EXCEPT !.pub["fas"] =
            Some(filter_engine_get_fas(s.series["mdl"], s.series["wu"], s.series["zu"],
                                       s.series["wl"], s.series["zl"],
                                       s1.cache["freq"].val))]

\* get_ce: the result is bound to the attribute ce
get_ce(s) == [s EXCEPT !.pub["ce"] = Some(signal_analysis_get_ce(s.dt, s.series["mdl"]))]

\* np.sqrt(a / b) / (2 * np.pi), elementwise; 0/0 is NaN
Rate(a, b) ==
    [i \in 1..Len(a) |->
        IF IsNumber(a[i]) /\ IsNumber(b[i])
        THEN (IF b[i].num = 0 THEN (IF a[i].num = 0 THEN NaN ELSE Inf)
              ELSE MulNum(a[i], PowNeg(b[i], 1)))
        ELSE [sqrt_ratio |-> <<a[i], b[i]>>]]

\* (np.sqrt(a / b) - np.sqrt(c / d)) / (4 * np.pi): half the difference of two rates
HalfDiff(x, y) ==
    [i \in 1..Len(x) |->
        IF IsNumber(x[i]) \/ IsNumber(y[i])
        THEN (IF x[i] = Zero /\ y[i] = Zero THEN Zero ELSE NaN)
        ELSE [half_diff |-> <<x[i], y[i]>>]]

\* np.cumsum(rate) * dt
CumSum(rate, d) ==
    [i \in 1..Len(rate) |->
        IF \E j \in 1..i : rate[j] = NaN THEN NaN
        ELSE IF \E j \in 1..i : rate[j] = Inf THEN Inf
        ELSE IF \A j \in 1..i : rate[j] = Zero THEN Zero
        ELSE [cumsum |-> SubSeq(rate, 1, i), dt |-> d]]

StoreCurve(s, name, rate) == [s EXCEPT !.pub[name] = Some(CumSum(rate, s.dt))]

get_mle_ac(s) ==
    StoreCurve(s, "mle_ac", Rate(s.variance["variance_2dot"], s.variance["variance_dot"]))
get_mle_vel(s) ==
    StoreCurve(s, "mle_vel", Rate(s.variance["variance_dot"], s.variance["variance"]))
get_mle_disp(s) ==
    StoreCurve(s, "mle_disp", Rate(s.variance["variance"], s.variance["variance_bar"]))
\* get_mzc_ac built from the pair of the velocity crossings
get_mzc_ac_shifted(s) ==
    StoreCurve(s, "mzc_ac", Rate(s.variance["variance"], s.variance["variance_bar"]))
get_mzc_ac(s) ==
    StoreCurve(s, "mzc_ac", Rate(s.variance["variance_dot"], s.variance["variance"]))
get_mzc_vel(s) ==
    StoreCurve(s, "mzc_vel", Rate(s.variance["variance"], s.variance["variance_bar"]))
get_mzc_disp(s) ==
    StoreCurve(s, "mzc_disp", Rate(s.variance["variance_bar"], s.variance["variance_2bar"]))
get_pmnm_ac(s) ==
    StoreCurve(s, "pmnm_ac",
               HalfDiff(Rate(s.variance["variance_2dot"], s.variance["variance_dot"]),
                        Rate(s.variance["variance_dot"], s.variance["variance"])))
get_pmnm_vel(s) ==
    StoreCurve(s, "pmnm_vel",
               HalfDiff(Rate(s.variance["variance_dot"], s.variance["variance"]),
                        Rate(s.variance["variance"], s.variance["variance_bar"])))
get_pmnm_disp(s) ==
    StoreCurve(s, "pmnm_disp",
               HalfDiff(Rate(s.variance["variance"], s.variance["variance_bar"]),
                        Rate(s.variance["variance_bar"], s.variance["variance_2bar"])))

\* get_properties that computes the moments after the curves
get_properties_stats_last(s) ==
    get_stats(get_pmnm_disp(get_pmnm_vel(get_pmnm_ac(
    get_mzc_disp(get_mzc_vel(get_mzc_ac(
    get_mle_disp(get_mle_vel(get_mle_ac(
    get_ce(get_fas(s))))))))))))

\* get_properties that computes the moments a second time after the curves
get_properties_stats_twice(s) ==
    get_stats(get_pmnm_disp(get_pmnm_vel(get_pmnm_ac(
    get_mzc_disp(get_mzc_vel(get_mzc_ac(
    get_mle_disp(get_mle_vel(get_mle_ac(
    get_ce(get_fas(get_stats(s)))))))))))))

\* get_properties: every computation, get_stats first
get_properties(s) ==
    get_pmnm_disp(get_pmnm_vel(get_pmnm_ac(
    get_mzc_disp(get_mzc_vel(get_mzc_ac(
    get_mle_disp(get_mle_vel(get_mle_ac(
    get_ce(get_fas(get_stats(s))))))))))))

\* ------------------------------------------------------------------ StochasticModel
\* np.random.default_rng(value): a stream determined by the seed, nothing drawn yet
default_rng(value) == [key |-> [kind |-> "seed", id |-> value], pos |-> 0]

\* np.random.default_rng(): a stream seeded from the operating system's entropy
entropy_rng(e) == [key |-> [kind |-> "entropy", id |-> e], pos |-> 0]

\* seed setter
set_seed(s, value) == [s EXCEPT !.seed = Some(value), !.rng = default_rng(value)]

\* rng.standard_normal((n, npts)): the next n * npts variates of the stream, row by row
standard_normal(r, n, m) ==
    [i \in 1..n |-> [j \in 1..m |-> [key |-> r.key, k |-> r.pos + (i - 1) * m + j]]]

\* model_engine.simulate_fourier_series: a pure function of its arguments
simulate_fourier_series(n, m, t, freq_sim, mdl, wu, zu, wl, zl, var, white_noise) ==
    [n |-> n, npts |-> m, t |-> t, freq_sim |-> freq_sim, mdl |-> mdl, wu |-> wu,
     zu |-> zu, wl |-> wl, zl |-> zl, variance |-> var, white_noise |-> white_noise]

Min(a, b) == IF a < b THEN a ELSE b

\* irfft(x)[..., :npts] of a spectrum with `bins` bins per row: 2 * (bins - 1)
\* samples per row, refused when that is less than one
irfft_ok(bins) == 2 * (bins - 1) >= 1
irfft_cols(bins, m) == Min(m, 2 * (bins - 1))

\* the coefficients handed to irfft, which transforms the coefficient at
\* position j (counted from 0) as frequency bin j: fourier itself for ac;
\* fourier[..., 1:] divided by 1j * freq_sim[1:] for vel and by
\* -(freq_sim[1:] ** 2) for disp. Position j holds bin from + j of fourier,
\* divided by entry over + j of freq_sim; count is the number of positions,
\* and zeroed the positions whose coefficient is replaced by zero (none).
Handed(kind, f, bins) ==
    IF kind = "ac" THEN [from |-> 0, count |-> bins, over |-> None, zeroed |-> {}]
    ELSE [from |-> 1, count |-> bins, over |-> Some(1), zeroed |-> {}]

Ensemble(kind, f, bins) ==
    Some([kind |-> kind, rows |-> f.n, cols |-> irfft_cols(bins, f.npts), fourier |-> f,
          spectrum |-> Handed(kind, f, bins)])

\* no attribute of ac, vel, disp is bound to an array yet
NoRef == [ac |-> 0, vel |-> 0, disp |-> 0]

\* self.<name> = irfft(...)[..., :npts]: the attribute is bound to a new array
rebind(s, name, e) ==
    [s EXCEPT ![name] = e, !.heap = Append(@, e.val), !.ref[name] = Len(s.heap) + 1]

\* simulate after its first line: coerce n, draw, synthesize, inverse-transform;
\* n is [numeric |-> BOOLEAN, value |-> Int]
synthesize(s1, n) ==
    IF ~n.numeric \/ n.value < 0
    THEN Raise(s1)   \* int(n) or standard_normal raises
    ELSE
    LET white_noise == standard_normal(s1.rng, n.value, s1.npts)
        s2 == [s1 EXCEPT !.rng.pos = @ + n.value * s1.npts,
                         !.drawn = @ + n.value * s1.npts]
        s3 == prop_freq_sim(prop_t(s2))
        f == simulate_fourier_series(n.value, s3.npts, s3.cache["t"].val,
                s3.cache["freq_sim"].val, s3.series["mdl"], s3.series["wu"],
                s3.series["zu"], s3.series["wl"], s3.series["zl"],
                s3.variance["variance"], white_noise)
        bins == Len(s3.cache["freq_sim"].val)
        s4 == [s3 EXCEPT !.fourier = Some(f)]
    IN  IF ~irfft_ok(bins) THEN Raise(s4)
        ELSE LET s5 == rebind(s4, "ac", Ensemble("ac", f, bins))
             IN  IF ~irfft_ok(bins - 1) THEN Raise(s5)
                 ELSE rebind(rebind(s5, "vel", Ensemble("vel", f, bins - 1)),
                             "disp", Ensemble("disp", f, bins - 1))

\* simulate whose first statement is dropped
simulate_past_stats(s, n) == synthesize(s, n)

\* simulate(n): the first statement reads self.stats, an attribute that no
\* class of the instance defines and nothing assigns, so the call raises
\* AttributeError before n is coerced and before anything is drawn
simulate(s, n) == Raise(s)

\* the five shape functions of a constructor call: the modulating function as
\* given, the other four the str defaults 'linear' of the constructor
Defaults(modulating) ==
    [q \in Quantities |-> IF q = "mdl" THEN modulating ELSE Tag("linear")]

\* five callables passed for the five shape functions, the modulating one by name
Callables(name) ==
    [q \in Quantities |-> Callable(IF q = "mdl" THEN name ELSE "linear")]

\* StochasticModel.__init__
StochasticModel_init(n, d, fs, e) ==
    LET blank == [npts |-> n, npts_numpy |-> FALSE, dt |-> d, cache |-> NoCache, ncomp |-> NoCount,
                  funcs |-> <<>>, series |-> <<>>, params |-> [q \in Quantities |-> None],
                  params_name |-> [q \in Quantities |-> None],
                  variance |-> <<>>, priv |-> <<>>, pub |-> [x \in Stats |-> None],
                  rng |-> entropy_rng(e), seed |-> None,
                  ac |-> None, vel |-> None, disp |-> None, fourier |-> None,
                  drawn |-> 0, heap |-> <<>>, ref |-> NoRef, err |-> FALSE,
                  stats_calls |-> 0]
    IN  ModelConfig_init(blank, fs)

\* DomainConfig.__init__ alone: a grid without a model on it
DomainConfig_init(n, d) ==
    [npts |-> n, npts_numpy |-> FALSE, dt |-> d, cache |-> NoCache, ncomp |-> NoCount,
     funcs |-> <<>>, series |-> <<>>, params |-> <<>>, params_name |-> <<>>,
     variance |-> <<>>, priv |-> <<>>, pub |-> <<>>, rng |-> <<>>, seed |-> None,
     ac |-> None, vel |-> None, disp |-> None, fourier |-> None, drawn |-> 0,
     heap |-> <<>>, ref |-> NoRef, err |-> FALSE,
                  stats_calls |-> 0]

\* ------------------------------------------------------------------ the parameter file
\* the datasets of the group parameters, and the attributes func and vars of
\* the five quantity datasets; a dataset is scalar or an array
FileData == Quantities \cup {"npts", "dt", "t"}
EmptyFile ==
    [data |-> [d \in FileData |-> None],
     func |-> [q \in Quantities |-> None],
     vars |-> [q \in Quantities |-> None]]
Scalar(x) == [scalar |-> TRUE, v |-> x]
Array(x) == [scalar |-> FALSE, v |-> x]

\* the order in which save_parameters and from_file go through the quantities
QOrder == <<"mdl", "wu", "zu", "wl", "zl">>

\* create_dataset(q, data=self.<q>_params) for the first k quantities; reading
\* an attribute that was never assigned raises
RECURSIVE WriteParams(_, _, _)
WriteParams(s, f, k) ==
    IF k = 0 THEN [ok |-> TRUE, file |-> f]
    ELSE LET r == WriteParams(s, f, k - 1)
             q == QOrder[k]
         IN  IF ~r.ok \/ ~s.params[q].set THEN [ok |-> FALSE, file |-> r.file]
             ELSE [ok |-> TRUE,
                   file |-> [r.file EXCEPT !.data[q] = Some(Array(s.params[q].val))]]

\* attrs['func'] = self.<q>_func.__name__ for the first k quantities; a str
\* has no attribute __name__
RECURSIVE WriteFuncs(_, _, _)
WriteFuncs(s, f, k) ==
    IF k = 0 THEN [ok |-> TRUE, file |-> f]
    ELSE LET r == WriteFuncs(s, f, k - 1)
             q == QOrder[k]
         IN  IF ~r.ok \/ s.funcs[q].form = "str" THEN [ok |-> FALSE, file |-> r.file]
             ELSE [ok |-> TRUE,
                   file |-> [r.file EXCEPT !.func[q] = Some(s.funcs[q].name)]]

\* attrs['vars'] = self.<q>_params_name for the first k quantities
RECURSIVE WriteVars(_, _, _)
WriteVars(s, f, k) ==
    IF k = 0 THEN [ok |-> TRUE, file |-> f]
    ELSE LET r == WriteVars(s, f, k - 1)
             q == QOrder[k]
         IN  IF ~r.ok \/ ~s.params_name[q].set THEN [ok |-> FALSE, file |-> r.file]
             ELSE [ok |-> TRUE,
                   file |-> [r.file EXCEPT !.vars[q] = Some(s.params_name[q].val)]]

\* save_parameters: the file is created anew and written in order; what was
\* written before a raise stays in the file.  Result: the instance and the file.
save_parameters(s) ==
    LET a == WriteParams(s, EmptyFile, 5)
    IN  IF ~a.ok THEN [self |-> Raise(s), file |-> Some(a.file)]
        ELSE LET s1 == prop_t(s)
                 b == [a.file EXCEPT !.data["npts"] = Some(Scalar(s.npts)),
                                     !.data["dt"] = Some(Scalar(s.dt)),
                                     !.data["t"] = Some(Array(s1.cache["t"].val))]
                 w == WriteFuncs(s1, b, 5)
                 c == IF w.ok THEN WriteVars(s1, w.file, 5) ELSE w
             IN  [self |-> IF c.ok THEN s1 ELSE Raise(s1), file |-> Some(c.file)]

\* nothing is returned: the call raised
NoModel == [ok |-> FALSE, model |-> <<>>]

\* the five setters of from_file in order, stopping at the first that raises
RECURSIVE LoadParams(_, _, _)
LoadParams(m, f, k) ==
    IF k = 0 THEN m
    ELSE LET m1 == LoadParams(m, f, k - 1)
             q == QOrder[k]
         IN  IF m1.err THEN m1
             ELSE Setter(m1, q, f.data[q].val.v, q \in {"wu", "wl"})

\* from_file that answers every failure with a newly constructed model
from_file_default_model(f, e) ==
    [ok |-> TRUE, model |-> StochasticModel_init(2, 1, Defaults(Tag("constant")), e)]

\* from_file: every dataset is read with [:], which h5py refuses on a scalar
\* dataset; the constructor gets npts as read, and np.zeros refuses an array as
\* a dimension; the func attributes are passed to the constructor as the str
\* they are read as.  e names the entropy of the new instance's generator.
from_file(f, e) ==
    IF ~f.set THEN NoModel
    ELSE IF \E q \in Quantities : ~f.val.data[q].set THEN NoModel
    ELSE IF \E d \in {"npts", "dt"} : ~f.val.data[d].set \/ f.val.data[d].val.scalar
    THEN NoModel
    ELSE IF \E q \in Quantities : ~f.val.func[q].set THEN NoModel
    ELSE LET n == f.val.data["npts"].val
             d == f.val.data["dt"].val
         IN  IF ~n.scalar THEN NoModel
             ELSE LET m0 == StochasticModel_init(n.v, d.v,
                                [q \in Quantities |-> Tag(f.val.func[q].val)], e)
                      m == LoadParams(m0, f.val, 5)
                  IN  IF m.err THEN NoModel ELSE [ok |-> TRUE, model |-> m]

\* ------------------------------------------------------------------ Motion
\* the nineteen cached features of a Motion, held in the private attributes
\* _fas, _fas_star, ..., _energy_mask
Features == {"fas", "fas_star", "ce", "sd", "sv", "sa", "pga", "pgv", "pgd",
             "energy_mask"} \cup Curves

\* Motion._reset_attributes: every cached feature is set to None
Motion_reset_attributes(s) == [s EXCEPT !.priv = [f \in Features |-> None]]

\* Motion.__init__: a grid, the three arrays as given, no feature cached
Motion_init(n, d, a, v, x) ==
    Motion_reset_attributes([DomainConfig_init(n, d) EXCEPT !.ac = a, !.vel = v, !.disp = x])

\* Motion.from_model: the Motion is given the arrays the model is bound to
from_model(model) == Motion_init(model.npts, model.dt, model.ac, model.vel, model.disp)

\* sum of the squared samples a[1..i]
RECURSIVE Energy(_, _)
Energy(a, i) == IF i = 0 THEN 0 ELSE Energy(a, i - 1) + a[i] * a[i]

\* signal_analysis.get_energy_mask: the samples at which the cumulative energy
\* lies within the range, given in thousandths of the total energy
get_energy_mask(d, a, r) ==
    [i \in 1..Len(a) |->
        /\ r[1] * Energy(a, Len(a)) <= 1000 * Energy(a, i)
        /\ 1000 * Energy(a, i) <= r[2] * Energy(a, Len(a))]

DefaultEnergyRange == <<1, 999>>

\* a signal_analysis or signal_processing primitive applied to its arguments
Primitive(name, args) == [primitive |-> name, args |-> args]

\* the feature properties: each computes its value on first read and keeps it
RECURSIVE prop_feature(_, _)
prop_feature(name, s) ==
    IF s.priv[name].set THEN s
    ELSE CASE name = "fas" ->
                [s EXCEPT !.priv["fas"] = Some(Primitive("get_fas", <<s.npts, s.ac.val>>))]
           [] name = "fas_star" ->
                LET s1 == prop_freq_mask(prop_feature("fas", s))
                IN  [s1 EXCEPT !.priv["fas_star"] =
                        Some(Primitive("moving_average",
                                       <<s1.priv["fas"].val, s1.cache["freq_mask"].val>>))]
           [] name = "ce" ->
                [s EXCEPT !.priv["ce"] = Some(Primitive("get_ce", <<s.dt, s.ac.val>>))]
           [] name \in {"mle_ac", "mzc_ac", "pmnm_ac", "pga"} ->
                [s EXCEPT !.priv[name] = Some(Primitive(name, <<s.ac.val>>))]
           [] name \in {"mle_vel", "mzc_vel", "pmnm_vel", "pgv"} ->
                [s EXCEPT !.priv[name] = Some(Primitive(name, <<s.vel.val>>))]
           [] name \in {"mle_disp", "mzc_disp", "pmnm_disp", "pgd"} ->
                [s EXCEPT !.priv[name] = Some(Primitive(name, <<s.disp.val>>))]
           [] name \in {"sd", "sv", "sa"} ->
                LET s1 == prop_tp(s)
                    sp(x) == Some(Primitive(x, <<s1.dt, s1.ac.val, s1.cache["tp"].val>>))
                IN  [s1 EXCEPT !.priv["sd"] = sp("sd"), !.priv["sv"] = sp("sv"),
                               !.priv["sa"] = sp("sa")]
           [] OTHER ->
                [s EXCEPT !.priv["energy_mask"] =
                    Some(get_energy_mask(s.dt, s.ac.val, DefaultEnergyRange))]

\* energy_mask setter
set_energy_mask(s, target_range) ==
    [s EXCEPT !.priv["energy_mask"] = Some(get_energy_mask(s.dt, s.ac.val, target_range))]

\* str.lower on the option and variable names a caller passes
Lower(option) ==
    CASE option \in {"energy", "Energy", "ENERGY"} -> "energy"
      [] option \in {"mask", "Mask", "MASK"} -> "mask"
      [] option = "Amplitude" -> "amplitude"
      [] option = "T" -> "t"
      [] OTHER -> option

\* a[mask] for a boolean mask: the selected samples in their order
RECURSIVE Take(_, _, _)
Take(a, mask, i) ==
    IF i = 0 THEN <<>>
    ELSE IF mask[i] THEN Append(Take(a, mask, i - 1), a[i]) ELSE Take(a, mask, i - 1)
Count(mask) == Len(Take(mask, mask, Len(mask)))

\* the slicing of set_range without the assignment to npts
apply_mask_keeps_npts(s, mask) ==
    IF Len(mask) # Len(s.ac.val) THEN Raise(s)
    ELSE Motion_reset_attributes(
            [s EXCEPT !.ac = Some(Take(s.ac.val, mask, Len(mask))),
                      !.vel = Some(Take(s.vel.val, mask, Len(mask))),
                      !.disp = Some(Take(s.disp.val, mask, Len(mask)))])

\* the part of set_range after the mask is known: npts, the three arrays in
\* turn, then the features; npts is bound to mask.sum(), a numpy integer;
\* indexing with a mask of another length raises
apply_mask(s, mask) ==
    LET s1 == [set_npts(s, Count(mask)) EXCEPT !.npts_numpy = TRUE]
    IN  IF Len(mask) # Len(s.ac.val) THEN Raise(s1)
        ELSE Motion_reset_attributes(
                [s1 EXCEPT !.ac = Some(Take(s.ac.val, mask, Len(mask))),
                           !.vel = Some(Take(s.vel.val, mask, Len(mask))),
                           !.disp = Some(Take(s.disp.val, mask, Len(mask)))])

\* set_range that falls back to the default energy range for an option it
\* does not know
set_range_defaulting(s, option, range_slice) ==
    IF Lower(option) = "mask" THEN apply_mask(s, range_slice)
    ELSE LET s1 == set_energy_mask(s, IF Lower(option) = "energy" THEN range_slice
                                      ELSE DefaultEnergyRange)
         IN  apply_mask(s1, s1.priv["energy_mask"].val)

\* Motion.set_range
set_range(s, option, range_slice) ==
    IF Lower(option) = "energy"
    THEN LET s1 == set_energy_mask(s, range_slice)
         IN  apply_mask(s1, s1.priv["energy_mask"].val)
    ELSE IF Lower(option) = "mask" THEN apply_mask(s, range_slice)
    ELSE Raise(s)

\* signal_processing.bandpass_filter(dt, ac, lowcut, highcut): an array as long
\* as ac whose samples depend on the samples of ac and on the band
bandpass_filter(d, a, lowcut, highcut) == [i \in 1..Len(a) |-> highcut * a[i] - lowcut]

\* signal_analysis.get_integral(dt, a): the running sum of a scaled by dt
RECURSIVE RunningSum(_, _)
RunningSum(a, i) == IF i = 0 THEN 0 ELSE RunningSum(a, i - 1) + a[i]
get_integral(d, a) == [i \in 1..Len(a) |-> d * RunningSum(a, i)]

\* signal_processing.resample(dt, dt_new, ac): the sample count of the same
\* duration at the new step, the new step, and ac taken at the new instants
signal_processing_resample(d, dt_new, a) ==
    LET n == (Len(a) * d) \div dt_new
    IN  [npts |-> n, dt |-> dt_new,
         ac |-> [i \in 1..n |-> a[Min(Len(a), ((i - 1) * dt_new) \div d + 1)]]]

\* Motion.filter
filter(s, bandpass_freqs) ==
    LET a == bandpass_filter(s.dt, s.ac.val, bandpass_freqs[1], bandpass_freqs[2])
        v == get_integral(s.dt, a)
    IN  Motion_reset_attributes(
            [s EXCEPT !.ac = Some(a), !.vel = Some(v), !.disp = Some(get_integral(s.dt, v))])

\* resample that keeps the cached features
resample_keeps_features(s, dt_new) ==
    LET r == signal_processing_resample(s.dt, dt_new, s.ac.val)
        s1 == set_dt(set_npts(s, r.npts), r.dt)
        v == get_integral(dt_new, r.ac)
    IN  [s1 EXCEPT !.ac = Some(r.ac), !.vel = Some(v), !.disp = Some(get_integral(dt_new, v))]

\* Motion.resample: npts, dt and ac are assigned in turn, then vel and disp
resample(s, dt_new) ==
    LET r == signal_processing_resample(s.dt, dt_new, s.ac.val)
        s1 == set_dt(set_npts(s, r.npts), r.dt)
        v == get_integral(dt_new, r.ac)
    IN  Motion_reset_attributes(
            [s1 EXCEPT !.ac = Some(r.ac), !.vel = Some(v),
                       !.disp = Some(get_integral(dt_new, v))])

\* getattr(self, name) on a Motion: the grid arrays inherited from
\* DomainConfig and the features are properties that compute on first read,
\* npts, dt, ac, vel and disp return what is stored, and a name the class does
\* not define raises AttributeError
Got(s1, kept, name) == [ok |-> TRUE, s |-> s1, val |-> s1[kept][name].val]
getattr(s, name) ==
    IF name \in CacheNames THEN Got(ReadProp(name, s), "cache", name)
    ELSE IF name \in Features THEN Got(prop_feature(name, s), "priv", name)
    ELSE IF name \in {"ac", "vel", "disp"} THEN [ok |-> TRUE, s |-> s, val |-> s[name].val]
    ELSE IF name \in {"npts", "dt"} THEN [ok |-> TRUE, s |-> s, val |-> s[name]]
    ELSE [ok |-> FALSE, s |-> s, val |-> <<>>]

\* the numpy shape of attribute name of a motion of one record, once read:
\* npts, dt and the peaks are scalars, the response spectra hold one row per
\* record over the periods, every other array is one-dimensional
shape(name, s) ==
    IF name \in {"npts", "dt", "pga", "pgv", "pgd"} THEN <<>>
    ELSE IF name = "tp" THEN <<s.cache["tp"].val.len>>
    ELSE IF name \in CacheNames THEN <<Len(s.cache[name].val)>>
    ELSE IF name \in {"sd", "sv", "sa"} THEN <<1, s.cache["tp"].val.len>>
    ELSE IF name = "fas" THEN <<Len(get_freq(s.npts, s.dt))>>
    ELSE IF name = "fas_star" THEN <<Count(s.cache["freq_mask"].val)>>
    ELSE IF name \in {"vel", "mle_vel", "mzc_vel", "pmnm_vel"} THEN <<Len(s.vel.val)>>
    ELSE IF name \in {"disp", "mle_disp", "mzc_disp", "pmnm_disp"} THEN <<Len(s.disp.val)>>
    ELSE <<Len(s.ac.val)>>

\* ndarray.T: the axes reversed
Transposed(d) == [k \in 1..Len(d) |-> d[Len(d) + 1 - k]]

\* the rows np.column_stack gives an operand: a scalar is one row, a
\* one-dimensional array a column, a two-dimensional array is taken as it is
StackRows(d) == IF Len(d) = 0 THEN 1 ELSE d[1]

\* x_data and then the list [getattr(self, var.lower()).T for var in y_vars],
\* from entry i of vars = <<x_var>> \o y_vars on and after the entries acc:
\* the variables are read in order; an unknown name raises, and so does .T on
\* a Python number: dt, and npts unless set_range has bound it to a numpy
\* integer, whose .T is itself; x_data is kept as read, every y transposed;
\* y_read continues from g, the outcome of reading entry i
RECURSIVE y_data(_, _, _, _), y_read(_, _, _, _)
y_data(s, vars_, i, acc) ==
    IF i > Len(vars_) THEN [ok |-> TRUE, s |-> s, val |-> acc]
    ELSE y_read(getattr(s, Lower(vars_[i])), vars_, i, acc)
y_read(g, vars_, i, acc) ==
    IF \/ ~g.ok
       \/ i > 1 /\ Lower(vars_[i]) = "dt"
       \/ i > 1 /\ Lower(vars_[i]) = "npts" /\ ~g.s.npts_numpy
    THEN [ok |-> FALSE, s |-> g.s, val |-> acc]
    ELSE y_data(g.s, vars_, i + 1,
                Append(acc, [val |-> g.val,
                             shape |-> IF i = 1 THEN shape(Lower(vars_[i]), g.s)
                                       ELSE Transposed(shape(Lower(vars_[i]), g.s))]))

\* the header fields of the file: x_var, then var1 .. varn for every var of
\* y_vars; with nothing to join the header ends in an empty field
Header(x_var, y_vars, n) ==
    IF Len(y_vars) * n = 0 THEN <<x_var, "">>
    ELSE <<x_var>> \o [j \in 1..(Len(y_vars) * n) |->
                          y_vars[(j - 1) \div n + 1] \o ToString(((j - 1) % n) + 1)]

\* np.column_stack and np.savetxt on the data d read: np.column_stack raises
\* unless all operands have as many rows, y_data[0].shape[1] raises unless the
\* first y is two-dimensional, and then the file is written
np_savetxt(d, f, filename, x_var, y_vars) ==
    IF ~d.ok THEN [s |-> Raise(d.s), file |-> f]
    ELSE IF \E k \in 2..Len(d.val) : StackRows(d.val[k].shape) # StackRows(d.val[1].shape)
    THEN [s |-> Raise(d.s), file |-> f]
    ELSE IF Len(d.val) > 1 /\ Len(d.val[2].shape) < 2 THEN [s |-> Raise(d.s), file |-> f]
    ELSE [s |-> d.s,
          file |-> Some([name |-> filename,
                         header |-> Header(x_var, y_vars,
                                           IF Len(d.val) > 1 THEN d.val[2].shape[2] ELSE 0),
                         columns |-> [c \in 1..Len(d.val) |-> d.val[c].val]])]

\* Motion.save_simulations: x and then every y are read, stacked and written
save_simulations(s, f, filename, x_var, y_vars) ==
    np_savetxt(y_data(s, <<x_var>> \o y_vars, 1, <<>>), f, filename, x_var, y_vars)

\* getattr(model, name) on a ModelCore: the grid arrays are properties, the
\* five series are properties that return what is stored, and fas, ce and the
\* nine curves are attributes that exist once their getter has run
getattr_model(m, name) ==
    IF name \in CacheNames THEN [ok |-> TRUE, s |-> ReadProp(name, m)]
    ELSE IF name \in Quantities THEN [ok |-> TRUE, s |-> m]
    ELSE IF name \in Stats THEN [ok |-> m.pub[name].set, s |-> m]
    ELSE [ok |-> FALSE, s |-> m]

\* one step of a plot function on the target, the model or the simulations:
\* step = <<who, name, use, of>> reads attribute name of who, an array as long
\* as the stored array of (on a model, as long as the series). use tells what
\* is done with it: "x" is the abscissa t of a plot; "y" is plotted against
\* the t read before it, and Axes.plot raises unless both are as long;
\* "but_last" plots y[:-1] against t; "last" plots y[-1], which raises on an
\* empty array and is one value; "max" takes max(abs(y)), which raises on an
\* empty array. c holds the three objects and whether the call is still
\* running; an attribute of None raises; Seen records g, the outcome of the
\* read
Seen(c, step, g) ==
    LET n == IF step[1] = "model" THEN Len(g.s.series["mdl"]) ELSE Len(g.s[step[4]].val)
        tn == Len(g.s.cache["t"].val)
    IN  [c EXCEPT !.ok = /\ g.ok
                         /\ CASE step[3] = "y" -> n = tn
                              [] step[3] = "but_last" -> (IF n = 0 THEN 0 ELSE n - 1) = tn
                              [] step[3] = "last" -> n > 0 /\ tn = 1
                              [] step[3] = "max" -> n > 0
                              [] OTHER -> TRUE,
                  ![step[1]] = IF step[1] = "target" THEN g.s ELSE Some(g.s)]
Read(c, step) ==
    IF ~c.ok THEN c
    ELSE IF step[1] = "target" THEN Seen(c, step, getattr(c.target, step[2]))
    ELSE IF ~c[step[1]].set THEN [c EXCEPT !.ok = FALSE]
    ELSE IF step[1] = "model" THEN Seen(c, step, getattr_model(c.model.val, step[2]))
    ELSE Seen(c, step, getattr(c.sim.val, step[2]))

\* the steps of a plot function from entry i on, in order
RECURSIVE Reads(_, _, _)
Reads(c, steps_, i) == IF i > Len(steps_) THEN c ELSE Reads(Read(c, steps_[i]), steps_, i + 1)

\* ax.plot(who.t, <name of who, taken as use>): t is read and then the curve
Plot(who, name, use, of) == <<<<who, "t", "x", "">>, <<who, name, use, of>>>>

\* the three panels of plot_feature for who: the _ac curve is drawn for 'mzc'
\* only
Curves3(who, feature) ==
    (IF feature = "mzc" THEN Plot(who, feature \o "_ac", "y", "ac") ELSE <<>>)
        \o Plot(who, feature \o "_vel", "y", "vel")
        \o Plot(who, feature \o "_disp", "y", "disp")

\* plot_tool.plot_feature(model, sim, target, feature): the reads it makes, in
\* order; model and sim are read when they are not None, and the simulations'
\* velocity curve is plotted twice, as [:-1] and as [-1]
plot_feature(model, sim, target, feature) ==
    Reads([ok |-> TRUE, target |-> target, model |-> model, sim |-> sim],
          Curves3("target", feature)
            \o (IF model.set THEN Curves3("model", feature) ELSE <<>>)
            \o (IF sim.set
                THEN (IF feature = "mzc" THEN Plot("sim", feature \o "_ac", "y", "ac")
                      ELSE <<>>)
                       \o Plot("sim", feature \o "_vel", "but_last", "vel")
                       \o Plot("sim", feature \o "_vel", "last", "vel")
                       \o Plot("sim", feature \o "_disp", "y", "disp")
                ELSE <<>>),
          1)

\* plot_tool.plot_ac_ce(model, target): the reads it makes, in order
plot_ac_ce(model, target) ==
    Reads([ok |-> TRUE, target |-> target, model |-> model, sim |-> None],
          Plot("target", "ac", "y", "ac") \o Plot("model", "mdl", "y", "")
            \o Plot("model", "mdl", "y", "")
            \o <<<<"target", "ac", "max", "ac">>, <<"target", "ac", "max", "ac">>>>
            \o Plot("target", "ce", "y", "ac") \o Plot("model", "ce", "y", ""),
          1)

\* ------------------------------------------------------------------ inputs
\* the two ways a caller names the shape functions of a model: by the str
\* tags of the constructor's signature, or by five callables
Shapes(name) == {Defaults(Tag(name)), Callables(name)}
ParamsOf(f) == IF f.name = "linear" THEN {<<2, 4>>, <<3, 1>>} ELSE {<<1>>, <<2>>}
SimCounts == {[numeric |-> TRUE, value |-> v] : v \in (-1)..MaxN}
                \cup {[numeric |-> FALSE, value |-> 0]}
Bands == {<<1, 250>>, <<500, 1000>>}
PeriodRanges == {<<4, 1004, 1>>, <<10, 20, 5>>}

Op(name) == [op |-> name, q |-> "", n |-> 0]
SetOp(q) == [op |-> "set", q |-> q, n |-> 0]
\* n is recorded as -1 when it is negative or not a number
SimOp(n) == [op |-> "simulate", q |-> "", n |-> IF n.numeric /\ n.value >= 0 THEN n.value ELSE -1]

\* ------------------------------------------------------------------ the model: actions
Init ==
    /\ \E n \in {2, MaxNpts} : \E fs \in Shapes("constant") : Holds(StochasticModel_init(n, 1, fs, 1))
    /\ held = None /\ file = None
    /\ last = Op("init") /\ steps = 0

Do(s, l) ==
    /\ steps < MaxSteps /\ Commit(s) /\ last' = l /\ steps' = steps + 1
    /\ UNCHANGED <<held, file>>

AssignNpts == \E v \in {1, MaxNpts} : Do(set_npts(Self, v), Op("npts"))
AssignDt == \E v \in {1, MaxDt} : Do(set_dt(Self, v), Op("dt"))
AssignMdl == \E p \in ParamsOf(funcs["mdl"]) : Do(set_mdl(Self, p), SetOp("mdl"))
AssignWu == \E p \in ParamsOf(funcs["wu"]) : Do(set_wu(Self, p), SetOp("wu"))
AssignZu == \E p \in ParamsOf(funcs["zu"]) : Do(set_zu(Self, p), SetOp("zu"))
AssignWl == \E p \in ParamsOf(funcs["wl"]) : Do(set_wl(Self, p), SetOp("wl"))
AssignZl == \E p \in ParamsOf(funcs["zl"]) : Do(set_zl(Self, p), SetOp("zl"))
GetStats == Do(get_stats(Self), Op("get_stats"))
GetFas == Do(get_fas(Self), Op("get_fas"))
GetCe == Do(get_ce(Self), Op("get_ce"))
GetMleAc == Do(get_mle_ac(Self), Op("get_mle_ac"))
GetMleVel == Do(get_mle_vel(Self), Op("get_mle_vel"))
GetMleDisp == Do(get_mle_disp(Self), Op("get_mle_disp"))
GetMzcAc == Do(get_mzc_ac(Self), Op("get_mzc_ac"))
GetMzcVel == Do(get_mzc_vel(Self), Op("get_mzc_vel"))
GetMzcDisp == Do(get_mzc_disp(Self), Op("get_mzc_disp"))
GetPmnmAc == Do(get_pmnm_ac(Self), Op("get_pmnm_ac"))
GetPmnmVel == Do(get_pmnm_vel(Self), Op("get_pmnm_vel"))
GetPmnmDisp == Do(get_pmnm_disp(Self), Op("get_pmnm_disp"))
GetProperties == Do(get_properties(Self), Op("get_properties"))

Next ==
    \/ AssignNpts \/ AssignDt
    \/ AssignMdl \/ AssignWu \/ AssignZu \/ AssignWl \/ AssignZl
    \/ GetStats \/ GetCe
    \/ GetMleAc \/ GetMleVel \/ GetMleDisp
    \/ GetMzcAc \/ GetMzcVel \/ GetMzcDisp
    \/ GetPmnmAc \/ GetPmnmVel \/ GetPmnmDisp
    \/ GetFas \/ GetProperties

Spec == Init /\ [][Next]_vars

\* ------------------------------------------------------------------ the synthesizer: actions
DoSim(s, l) ==
    /\ steps < MaxSimSteps /\ Commit(s) /\ last' = l /\ steps' = steps + 1
    /\ UNCHANGED <<held, file>>

InitSim ==
    /\ \E n \in 1..MaxNpts : \E fs \in Shapes("constant") : Holds(StochasticModel_init(n, 1, fs, 1))
    /\ held = None /\ file = None
    /\ last = Op("init") /\ steps = 0

SimAssignWu == \E p \in ParamsOf(funcs["wu"]) : DoSim(set_wu(Self, p), SetOp("wu"))
SimAssignMdl == \E p \in ParamsOf(funcs["mdl"]) : DoSim(set_mdl(Self, p), SetOp("mdl"))
SimGetStats == DoSim(get_stats(Self), Op("get_stats"))
AssignSeed == \E v \in 0..MaxSeed : DoSim(set_seed(Self, v), [Op("seed") EXCEPT !.n = v])
Simulate == \E n \in SimCounts : DoSim(simulate(Self, n), SimOp(n))

NextSim ==
    \/ SimAssignWu \/ SimAssignMdl \/ SimGetStats \/ AssignSeed \/ Simulate

SpecSim == InitSim /\ [][NextSim]_vars

\* ------------------------------------------------------------------ the grid: actions
InitGrid ==
    /\ \E n \in 0..MaxNpts, d \in {0, MaxDt} : Holds(DomainConfig_init(n, d))
    /\ held = None /\ file = None
    /\ last = Op("init") /\ steps = 0

DoGrid(s, l) == /\ Commit(s) /\ last' = l /\ steps' = 0 /\ UNCHANGED <<held, file>>

\* last.q: the band or period range passed to a setter;
\* last.n: 0 before any assignment of npts or dt, 2 once an assignment has
\* discarded a filled cache, 1 otherwise
Discarded == IF cache # NoCache THEN 2 ELSE IF last.n = 0 THEN 1 ELSE last.n
GridOp(name) == [op |-> name, q |-> "", n |-> last.n]
GridAssignOp(name) == [op |-> name, q |-> "", n |-> Discarded]

GridAssignNpts == \E v \in 0..MaxNpts : DoGrid(set_npts(Self, v), GridAssignOp("npts"))
GridAssignDt == \E v \in {0, MaxDt} : DoGrid(set_dt(Self, v), GridAssignOp("dt"))
\* the axes are read on valid grids only
GridRead ==
    /\ npts > 0 /\ dt > 0
    /\ \E c \in CacheNames : DoGrid(ReadProp(c, Self), GridOp("read"))
GridSetFreqMask ==
    /\ npts > 0 /\ dt > 0
    /\ \E b \in Bands :
          DoGrid(set_freq_mask(Self, b), [GridOp("freq_mask") EXCEPT !.q = b])
GridSetTp ==
    \E r \in PeriodRanges : DoGrid(set_tp(Self, r), [GridOp("tp") EXCEPT !.q = r])

NextGrid ==
    \/ GridAssignNpts \/ GridAssignDt \/ GridRead \/ GridSetFreqMask \/ GridSetTp

SpecGrid == InitGrid /\ [][NextGrid]_vars

\* ------------------------------------------------------------------ configuration: actions
\* names a caller may pass to the constructor, among them one that names no
\* variant; the shape functions passed as such a str, as the library function
\* or as callables; and parameter vectors of one, two and three entries a
\* caller may pass to a setter
AnyTags == FuncNames \cup {"sine"}
AnyShapes ==
    {Defaults(Tag(f)) : f \in AnyTags} \cup {Defaults(Library(f)) : f \in FuncNames}
        \cup {Callables(f) : f \in FuncNames}
AnyParams == {<<1>>, <<2, 4>>, <<1, 2, 3>>}

InitConfig ==
    /\ \E fs \in AnyShapes : Holds(StochasticModel_init(2, 1, fs, 1))
    /\ held = None /\ file = None
    /\ last = Op("init") /\ steps = 0

\* last.n is the length of the vector passed to the setter
ConfAssignMdl ==
    \E p \in AnyParams : Do(set_mdl(Self, p), [SetOp("mdl") EXCEPT !.n = Len(p)])
ConfAssignWu ==
    \E p \in AnyParams : Do(set_wu(Self, p), [SetOp("wu") EXCEPT !.n = Len(p)])
ConfGetStats == Do(get_stats(Self), Op("get_stats"))
ConfGetCe == Do(get_ce(Self), Op("get_ce"))

NextConfig == ConfAssignMdl \/ ConfAssignWu \/ ConfGetStats \/ ConfGetCe

SpecConfig == InitConfig /\ [][NextConfig]_vars

\* ------------------------------------------------------------------ Motion: actions
\* a recorded motion of n samples: three arrays with samples that tell them apart
Record(n, base) == Some([i \in 1..n |-> base + i])
Options == {"energy", "ENERGY", "mask", "Mask", "amplitude", "Amplitude", ""}
EnergyRanges == {DefaultEnergyRange, <<500, 1000>>}
\* bands of Motion.filter, (lowcut, highcut) in Hz
FilterBands == {<<1, 2>>, <<1, 3>>}
\* boolean masks over n samples: all but the first, all but the last, all
Masks(n) == {[i \in 1..n |-> i > 1], [i \in 1..n |-> i < n], [i \in 1..n |-> TRUE]}
\* calls of save_simulations as <<x_var, y_vars>>; 'period' names no attribute
SaveArgs == {<<"T", <<>>>>, <<"freq", <<>>>>, <<"t", <<"ce">>>>, <<"period", <<"ce">>>>,
             <<"t", <<"npts", "ce">>>>,
             <<"t", <<"pga", "period", "pgv">>>>, <<"tp", <<"sa", "sv", "sd">>>>}
\* the feature of plot_feature; 'fas' has no _vel or _disp attribute
PlotFeatures == {"mzc", "mle", "fas"}
\* the model handed to a plot function with a target of step d: none, one as
\* constructed on that step, or one on which get_properties has run
PlotModels(d) ==
    {None, Some(StochasticModel_init(2, d, Defaults(Tag("constant")), 1)),
     Some(get_properties(StochasticModel_init(2, d, Defaults(Tag("constant")), 1)))}
\* the simulations handed to plot_feature: none, or a Motion of two samples
PlotSims(d) == {None, Some(Motion_init(2, d, Record(2, 0), Record(2, 10), Record(2, 20)))}
\* calls of plot_feature as <<model, sim>>: simulations are not handed together
\* with a model that lacks its curves
PlotArgs(d) ==
    {a \in PlotModels(d) \X PlotSims(d) :
        a[2].set => (~a[1].set \/ a[1].val.pub["mzc_ac"].set)}

InitMotion ==
    /\ \E n \in 2..MaxNpts : Holds(Motion_init(n, 1, Record(n, 0), Record(n, 10), Record(n, 20)))
    /\ held = None /\ file = None
    /\ last = Op("init") /\ steps = 0

DoMotion(s, l) ==
    /\ steps < MaxMotionSteps /\ Commit(s) /\ last' = l /\ steps' = steps + 1
    /\ UNCHANGED <<held, file>>

\* last.q is the option and last.n the range or mask as passed
MotionSetRange ==
    \E option \in Options :
        \E r \in IF Lower(option) = "mask" THEN Masks(npts) ELSE EnergyRanges :
            DoMotion(set_range(Self, option, r),
                     [Op("set_range") EXCEPT !.q = option, !.n = r])
\* last.q is the feature read
MotionRead ==
    \E f \in Features : DoMotion(prop_feature(f, Self), [Op("feature") EXCEPT !.q = f])
MotionReadT == DoMotion(prop_t(Self), Op("read"))
\* the frequency axes are read on grids of at least one sample
MotionReadGrid ==
    /\ npts > 0
    /\ \E c \in {"freq", "freq_sim", "freq_mask"} : DoMotion(ReadProp(c, Self), Op("read"))
MotionFilter == \E b \in FilterBands : DoMotion(filter(Self, b), Op("filter"))
MotionResample == \E d \in {1, MaxDt} : DoMotion(resample(Self, d), Op("resample"))

\* last.n is the range assigned to energy_mask
MotionSetEnergyMask ==
    \E r \in EnergyRanges :
        DoMotion(set_energy_mask(Self, r), [Op("energy_mask") EXCEPT !.n = r])
\* last.q is x_var and last.n is y_vars; the frequency axis is read on grids
\* of at least one sample
DoSave(r, l) ==
    /\ steps < MaxMotionSteps /\ Commit(r.s) /\ file' = r.file
    /\ last' = l /\ steps' = steps + 1 /\ UNCHANGED held
MotionSave ==
    \E a \in SaveArgs :
        /\ npts > 0 \/ a[1] # "freq"
        /\ DoSave(save_simulations(Self, file, "motion.csv", a[1], a[2]),
                  [Op("save") EXCEPT !.q = a[1], !.n = a[2]])
\* a plot call on this Motion as target: held keeps the model and the
\* simulations it was handed, as the call leaves them
DoPlot(c, l) ==
    /\ Commit(IF c.ok THEN c.target ELSE Raise(c.target))
    /\ held' = Some([model |-> c.model, sim |-> c.sim])
    /\ last' = l /\ steps' = steps + 1 /\ UNCHANGED file
\* last.q is the feature plotted
MotionPlotFeature ==
    /\ steps < MaxMotionSteps
    /\ \E feature \in PlotFeatures : \E a \in PlotArgs(dt) :
          DoPlot(plot_feature(a[1], a[2], Self, feature), [Op("plot") EXCEPT !.q = feature])
MotionPlotAcCe ==
    /\ steps < MaxMotionSteps
    /\ \E model \in PlotModels(dt) : DoPlot(plot_ac_ce(model, Self), Op("plot_ac_ce"))

NextMotion == MotionSetRange \/ MotionRead \/ MotionReadT \/ MotionReadGrid
                \/ MotionSetEnergyMask

SpecMotion == InitMotion /\ [][NextMotion]_vars

\* ------------------------------------------------------------------ features: actions
\* a motion that is cut, filtered and resampled between reads of its features
FeatSetRange ==
    \E option \in {"energy", "mask"} :
        \E r \in IF option = "mask" THEN Masks(npts) ELSE EnergyRanges :
            DoMotion(set_range(Self, option, r),
                     [Op("set_range") EXCEPT !.q = option, !.n = r])

NextFeatures == FeatSetRange \/ MotionRead \/ MotionFilter \/ MotionResample
                  \/ MotionSetEnergyMask \/ MotionSave \/ MotionPlotFeature
                  \/ MotionPlotAcCe

SpecFeatures == InitMotion /\ [][NextFeatures]_vars

\* ------------------------------------------------------------------ persistence: actions
InitFile ==
    /\ \E fs \in Shapes("constant") : Holds(StochasticModel_init(2, 1, fs, 1))
    /\ held = None /\ file = None
    /\ last = Op("init") /\ steps = 0

DoFile(s, f, l) ==
    /\ steps < MaxFileSteps /\ Commit(s) /\ file' = f /\ last' = l /\ steps' = steps + 1
    /\ UNCHANGED held

FileAssignMdl == \E p \in ParamsOf(funcs["mdl"]) : DoFile(set_mdl(Self, p), file, SetOp("mdl"))
FileAssignWu == \E p \in ParamsOf(funcs["wu"]) : DoFile(set_wu(Self, p), file, SetOp("wu"))
FileAssignZu == \E p \in ParamsOf(funcs["zu"]) : DoFile(set_zu(Self, p), file, SetOp("zu"))
FileAssignWl == \E p \in ParamsOf(funcs["wl"]) : DoFile(set_wl(Self, p), file, SetOp("wl"))
FileAssignZl == \E p \in ParamsOf(funcs["zl"]) : DoFile(set_zl(Self, p), file, SetOp("zl"))
SaveParameters ==
    LET r == save_parameters(Self) IN DoFile(r.self, r.file, Op("save"))
\* model = StochasticModel.from_file(...): the caller's model is replaced by
\* the returned one, or the call raises and the caller keeps what it had
FromFile ==
    LET r == from_file(file, 2)
    IN  DoFile(IF r.ok THEN r.model ELSE Raise(Self), file, Op("load"))

NextFile ==
    \/ FileAssignMdl \/ FileAssignWu \/ FileAssignZu \/ FileAssignWl \/ FileAssignZl
    \/ SaveParameters \/ FromFile

SpecFile == InitFile /\ [][NextFile]_vars

\* ------------------------------------------------------------------ ownership: actions
\* a model that simulates repeatedly while a Motion built from an earlier
\* ensemble is kept; the Motion is recorded with the arrays it is bound to
InitOwn ==
    /\ \E n \in {2, MaxNpts} : \E fs \in Shapes("constant") : Holds(StochasticModel_init(n, 1, fs, 1))
    /\ held = None /\ file = None
    /\ last = Op("init") /\ steps = 0

DoOwn(s, h, l) ==
    /\ steps < MaxSimSteps /\ Commit(s) /\ held' = h /\ last' = l
    /\ steps' = steps + 1 /\ UNCHANGED file

\* Motion.from_model(model) and the arrays its ac, vel, disp are bound to;
\* reading model.ac before the first simulate raises
HeldMotion(model) == Some([motion |-> from_model(model), ref |-> model.ref])

OwnAssignWu == \E p \in ParamsOf(funcs["wu"]) : DoOwn(set_wu(Self, p), held, SetOp("wu"))
OwnAssignSeed ==
    \E v \in 0..MaxSeed : DoOwn(set_seed(Self, v), held, [Op("seed") EXCEPT !.n = v])
OwnSimulate == \E n \in SimCounts : DoOwn(simulate(Self, n), held, SimOp(n))
OwnFromModel ==
    IF ac.set /\ vel.set /\ disp.set
    THEN DoOwn(Self, HeldMotion(Self), Op("from_model"))
    ELSE DoOwn(Raise(Self), held, Op("from_model"))

NextOwn == OwnAssignWu \/ OwnAssignSeed \/ OwnSimulate \/ OwnFromModel

SpecOwn == InitOwn /\ [][NextOwn]_vars

\* ------------------------------------------------------------------ envelopes: actions
\* parameter vectors of the two Beta envelopes: p in {0, 1}, c = 2, Et = 1 and
\* an end time tn below, on and above the samples of the time axis
BetaParams(f) ==
    IF f.name = "beta_single"
    THEN {<<p1, 2, 1, tn>> : p1 \in {0, 1}, tn \in 1..MaxTn}
    ELSE {<<p1, 2, p2, 2, 0, 1, tn>> : p1 \in {0, 1}, p2 \in {0, 1}, tn \in 1..MaxTn}

InitEnvelope ==
    /\ \E n \in 1..MaxNpts, d \in 1..MaxDt, f \in {"beta_single", "beta_dual"} :
           \E fs \in Shapes(f) : Holds(StochasticModel_init(n, d, fs, 1))
    /\ held = None /\ file = None
    /\ last = Op("init") /\ steps = 0

EnvAssignMdl ==
    \E p \in BetaParams(funcs["mdl"]) :
        /\ Commit(set_mdl(Self, p)) /\ last' = SetOp("mdl") /\ steps' = 0
        /\ UNCHANGED <<held, file>>

NextEnvelope == EnvAssignMdl

SpecEnvelope == InitEnvelope /\ [][NextEnvelope]_vars

\* ------------------------------------------------------------------ claims
\* C1: after a completed assignment to mdl, wu, zu, wl or zl, every derived
\* statistic a caller can read back (the five variance arrays, fas, ce and the
\* nine rate curves) is all zero: no value computed before the assignment
\* remains readable.
C1_StatsClearedBySetter ==
    (last.op = "set" /\ ~err) =>
        /\ \A m \in Moments : AllZero(variance[m])
        /\ \A x \in Stats : pub[x].set => AllZero(pub[x].val)

\* what a cached array holds when computed from the npts and dt now stored
FreshFreq == get_freq(npts, dt)
FreshFreqSim == get_freq(npts_sim(npts), dt)
FreshCache(c) ==
    CASE c = "t" -> cache[c].val = get_time(npts, dt)
      [] c = "freq" -> cache[c].val = FreshFreq
      [] c = "freq_sim" -> cache[c].val = FreshFreqSim
      [] c = "freq_sim_p2" ->
            cache[c].val = [i \in 1..Len(FreshFreqSim) |-> Pow(FreshFreqSim[i], 2)]
      [] c = "freq_p2" -> cache[c].val = [i \in 1..Len(FreshFreq) |-> Pow(FreshFreq[i], 2)]
      [] c = "freq_p4" -> cache[c].val = [i \in 1..Len(FreshFreq) |-> Pow(FreshFreq[i], 4)]
      [] c = "freq_n2" ->
            cache[c].val = [i \in 1..(Len(FreshFreq) - 1) |-> PowNeg(FreshFreq[i + 1], 2)]
      [] c = "freq_n4" ->
            cache[c].val = [i \in 1..(Len(FreshFreq) - 1) |-> PowNeg(FreshFreq[i + 1], 4)]
      [] c = "freq_mask" ->
            \E b \in Bands \cup {DefaultBand} : cache[c].val = get_freq_mask(FreshFreq, b)
      [] OTHER ->
            \E r \in PeriodRanges \cup {DefaultPeriods} : cache[c].val = arange(r)

\* C2: assigning npts or dt leaves every cached array discarded; whatever a
\* cache holds was computed from the npts and dt now stored; and between two
\* assignments no array is lazily computed more than once.
C2_CachesFollowGrid ==
    /\ last.op \in {"npts", "dt"} => cache = NoCache
    /\ \A c \in CacheNames : cache[c].set => FreshCache(c)
    /\ \A c \in CacheNames : ncomp[c] <= 1

\* C2 witness: after an assignment discarded filled caches, freq_n4 has been
\* read again on a grid of at least two samples
C2_Witness ==
    /\ last.op = "read" /\ last.n = 2 /\ npts >= 2 /\ dt > 0
    /\ cache["freq_n4"].set /\ ncomp["freq_n4"] = 1 /\ ncomp["freq"] = 1

\* C3: the five stored series and every derived-statistics array are as long
\* as the npts now stored, and fas is as long as the current freq axis.
C3_LengthsFollowNpts ==
    /\ \A q \in Quantities : Len(series[q]) = npts
    /\ \A m \in Moments : Len(variance[m]) = npts
    /\ \A x \in Stats \ {"fas"} :
          /\ Len(priv[x]) = npts
          /\ pub[x].set => Len(pub[x].val) = npts
    /\ Len(priv["fas"]) = Len(FreshFreq)
    /\ pub["fas"].set => Len(pub["fas"].val) = Len(FreshFreq)

\* C4: simulate(n) with a count it can coerce hands the synthesis kernel a
\* variance, and that variance is compute_stats of the series stored at that
\* moment over the current freq axis.
C4_KernelVarianceCurrent ==
    (last.op = "simulate" /\ last.n >= 0) =>
        /\ fourier.set
        /\ fourier.val.variance =
              filter_engine_get_stats(series["wu"], series["zu"], series["wl"],
                                      series["zl"], FreshFreq)["variance"]

\* C5: a non-positive npts or dt is never stored on a grid, neither by the
\* constructor nor by an assignment.
C5_NonPositiveRejected == npts > 0 /\ dt > 0

\* C6: after a completed setter the model holds both the parameter vector and
\* the parameter names of that quantity.
C6_SetterRecordsParamsAndNames ==
    (last.op = "set" /\ ~err) => params[last.q].set /\ params_name[last.q].set

\* C7 as stated: a setter changes neither the other four series and parameter
\* vectors nor npts, dt or any grid cache.
C7_SetterFrame ==
    [][(last'.op = "set" /\ steps' # steps) =>
          /\ \A q \in Quantities \ {last'.q} :
                series'[q] = series[q] /\ params'[q] = params[q]
          /\ npts' = npts /\ dt' = dt
          /\ cache' = cache]_vars

\* C7 amended: a setter changes neither the other four series and parameter
\* vectors nor npts or dt; of the grid caches it changes at most t, which it
\* fills from the current npts and dt when it was empty.
C7_SetterFrameFillsT ==
    [][(last'.op = "set" /\ steps' # steps) =>
          /\ \A q \in Quantities \ {last'.q} :
                series'[q] = series[q] /\ params'[q] = params[q]
          /\ npts' = npts /\ dt' = dt
          /\ \A c \in CacheNames \ {"t"} : cache'[c] = cache[c]
          /\ cache'["t"] = IF cache["t"].set THEN cache["t"]
                           ELSE Some(get_time(npts, dt))]_vars

\* C7 witness: a setter completed while another quantity was already assigned
C7_Witness ==
    /\ last.op = "set" /\ ~err
    /\ \E q \in Quantities \ {last.q} : params[q].set /\ ~AllZero(series[q])

\* the series a model holds for q when its parameters were evaluated on the
\* grid now stored
RefSeries(q) ==
    IF ~params[q].set THEN Zeros(npts)
    ELSE LET r == CallFunc(funcs[q], get_time(npts, dt), params[q].val).result
         IN  IF q \in {"wu", "wl"} THEN [i \in 1..Len(r) |-> Times2Pi(r[i])] ELSE r

\* the kernel call of simulate(n) on a model described by npts, dt, the shape
\* functions, the parameter vectors and a seed sd assigned before any draw
RefFourier(n, sd) ==
    simulate_fourier_series(n, npts, get_time(npts, dt), FreshFreqSim,
        RefSeries("mdl"), RefSeries("wu"), RefSeries("zu"), RefSeries("wl"),
        RefSeries("zl"),
        filter_engine_get_stats(RefSeries("wu"), RefSeries("zu"), RefSeries("wl"),
                                RefSeries("zl"), FreshFreq)["variance"],
        standard_normal(default_rng(sd), n, npts))

\* C8: a simulate(n), n >= 1, that is the first draw after a seed was assigned
\* returns ensembles that are a function of npts, dt, the shape functions,
\* the parameter vectors, the seed and n alone, so two such instances agree;
\* and the white noise differs from the one any other seed gives.
C8_SeededEnsembleDetermined ==
    [][(/\ last'.op = "simulate" /\ last'.n >= 1 /\ steps' # steps
        /\ seed.set /\ rng = default_rng(seed.val)) =>
          /\ ~err'
          /\ fourier'.set /\ ac'.set /\ vel'.set /\ disp'.set
          /\ fourier'.val = RefFourier(last'.n, seed.val)
          /\ ac' = Ensemble("ac", fourier'.val, Len(FreshFreqSim))
          /\ vel' = Ensemble("vel", fourier'.val, Len(FreshFreqSim) - 1)
          /\ disp' = Ensemble("disp", fourier'.val, Len(FreshFreqSim) - 1)
          /\ \A s2 \in (0..MaxSeed) \ {seed.val} :
                fourier'.val.white_noise # standard_normal(default_rng(s2), last'.n, npts)]_vars

\* C9: assigning seed = s makes the getter return s and replaces the stream,
\* so the simulate that follows draws what a fresh instance seeded with s
\* draws first, whatever was drawn before.
C9_SeedReplacesStream ==
    [][/\ (last'.op = "seed" /\ steps' # steps) =>
              seed' = Some(last'.n) /\ rng' = default_rng(last'.n)
       /\ (last.op = "seed" /\ last'.op = "simulate" /\ last'.n >= 0) =>
              /\ fourier'.set
              /\ fourier'.val.white_noise =
                     standard_normal(default_rng(last.n), last'.n, npts)]_vars

\* C10: simulate(n) with n zero, negative or not a number raises, and the
\* call leaves ac, vel, disp and the random stream as they were.
C10_NonPositiveCountRejected ==
    [][(last'.op = "simulate" /\ last'.n < 1 /\ steps' # steps) =>
          /\ err'
          /\ ac' = ac /\ vel' = vel /\ disp' = disp
          /\ rng' = rng /\ drawn' = drawn]_vars

\* C10 witness: simulate(0) was refused on a model with assigned filter
\* parameters and a seeded stream, of which nothing has been drawn
C10_Witness ==
    /\ last.op = "simulate" /\ last.n = 0 /\ err
    /\ params["wu"].set /\ seed.set /\ rng.pos = 0

\* C11: every rate curve a getter has stored is free of non-finite entries,
\* also when the getter ran on variances that a setter (or the constructor)
\* left at zero.
C11_RatesGuarded ==
    \A c \in Curves :
        pub[c].set => \A i \in 1..Len(pub[c].val) : pub[c].val[i] \notin {NaN, Inf}

\* all five quantities have been assigned
AllAssigned == \A q \in Quantities : params[q].set

\* C12: save_parameters on a model whose five quantities are assigned, followed
\* by from_file, yields a model with the same npts, dt, shape functions and
\* the same five series.
C12_RoundTrip ==
    [][(last.op = "save" /\ AllAssigned /\ last'.op = "load") =>
          /\ ~err'
          /\ npts' = npts /\ dt' = dt /\ funcs' = funcs
          /\ series' = series]_vars

\* C13: no model exists whose shape-function name names no variant of the
\* library, and a setter called with a vector whose length is not the number
\* of parameters of its shape function raises.
C13_ConfigErrorsRejected ==
    /\ \A q \in Quantities : funcs[q].name \in FuncNames
    /\ (last.op = "set" /\ funcs[last.q].name \in FuncNames
            /\ last.n # ParamCount(funcs[last.q].name)) => err

IsPowerOfTwo(x) == \E k \in 0..x : IPow(2, k) = x

\* C14: whenever freq_sim is stored, it is the axis of a sample count P that is
\* a power of two with P >= 2*npts and P/2 < 2*npts, for the npts now stored.
C14_FreqSimPowerOfTwo ==
    cache["freq_sim"].set =>
        \E P \in 1..(4 * npts) :
            /\ IsPowerOfTwo(P) /\ P >= 2 * npts /\ P \div 2 < 2 * npts
            /\ cache["freq_sim"].val = get_freq(P, dt)

\* C14 witness: freq_sim read again after npts was reassigned to 3, a count
\* whose double is not a power of two
C14_Witness ==
    /\ last.op = "read" /\ last.n = 2 /\ npts = 3
    /\ cache["freq_sim"].set /\ Len(cache["freq_sim"].val) = 8

\* C15: after simulate(n) with n >= 1 the call has not raised and ac, vel and
\* disp each hold n rows of npts samples.
C15_EnsembleShape ==
    (last.op = "simulate" /\ last.n >= 1) =>
        /\ ~err
        /\ \A x \in {ac, vel, disp} :
              x.set /\ x.val.rows = last.n /\ x.val.cols = npts

\* C16: after a completed setter on a model whose arrays have the length of the
\* grid, the stored series is the output of the shape function for the
\* recorded parameter vector on the current time axis, multiplied by 2*pi
\* exactly once for wu and wl and not at all for mdl, zu and zl.
C16_AngularScaledOnce ==
    (last.op = "set" /\ ~err /\ Len(series[last.q]) = npts) =>
        /\ params[last.q].set
        /\ LET out == CallFunc(funcs[last.q], get_time(npts, dt), params[last.q].val)
           IN  /\ out.ok
               /\ series[last.q] =
                    [i \in 1..npts |->
                        IF last.q \in {"wu", "wl"}
                        THEN MulNum(Num(1, 1, 1), out.result[i])
                        ELSE out.result[i]]

\* C16 witness: wu was assigned (3, 1) as the second or a later operation and
\* its first sample is 3 * 2*pi
C16_Witness ==
    /\ last.op = "set" /\ last.q = "wu" /\ ~err /\ steps >= 2
    /\ Len(series["wu"]) = npts
    /\ params["wu"] = Some(<<3, 1>>) /\ series["wu"][1] = Num(3, 1, 1)

\* C17: set_range with an option that is neither 'energy' nor 'mask' in any
\* letter case raises, and leaves npts, dt, ac, vel, disp, the grid caches and
\* every cached feature as they were.
C17_UnsupportedOptionRejected ==
    [][(last'.op = "set_range" /\ Lower(last'.q) \notin {"energy", "mask"}) =>
          /\ err'
          /\ npts' = npts /\ dt' = dt
          /\ ac' = ac /\ vel' = vel /\ disp' = disp
          /\ cache' = cache /\ priv' = priv]_vars

\* C17 witness: set_range('Amplitude', ...) was refused on a motion that had
\* features and the time axis cached
C17_Witness ==
    /\ last.op = "set_range" /\ last.q = "Amplitude" /\ err
    /\ cache["t"].set /\ \E f \in Features : priv[f].set

\* C18: from_file either raises, and then the caller holds no new model and
\* keeps what it had, or returns a model on which all five quantities were
\* assigned the vectors stored in the file.
C18_NoPartialModel ==
    [][(last'.op = "load") =>
          \/ /\ err'
             /\ UNCHANGED <<npts, dt, funcs, series, params, params_name, variance,
                            priv, pub, rng, seed, ac, vel, disp>>
          \/ /\ ~err'
             /\ file.set
             /\ \A q \in Quantities :
                    /\ file.val.data[q].set
                    /\ params'[q] = Some(file.val.data[q].val.v)]_vars

\* C18 witness: from_file raised on a file in which the dataset of mdl is
\* present and the dataset of another quantity is missing
C18_Witness ==
    /\ last.op = "load" /\ err /\ file.set
    /\ file.val.data["mdl"].set
    /\ \E q \in Quantities : ~file.val.data[q].set

\* C19: simulate binds ac, vel and disp to new arrays: no array that existed
\* before a step has other contents after it, so the arrays of an earlier call
\* and of a Motion built from them with from_model keep their contents; and a
\* simulate(n) that follows without a seed assignment in between draws the
\* n * npts variates after the ones already drawn from the stream.
C19_FreshlyOwnedEnsembles ==
    [][/\ Len(heap') >= Len(heap)
       /\ \A i \in 1..Len(heap) : heap'[i] = heap[i]
       /\ held.set =>
             /\ heap'[held.val.ref.ac] = held.val.motion.ac.val
             /\ heap'[held.val.ref.vel] = held.val.motion.vel.val
             /\ heap'[held.val.ref.disp] = held.val.motion.disp.val
       /\ (last'.op = "simulate" /\ last'.n >= 1 /\ steps' # steps) =>
             /\ fourier'.set
             /\ fourier'.val.white_noise = standard_normal(rng, last'.n, npts)
             /\ rng'.key = rng.key /\ rng'.pos = rng.pos + last'.n * npts
             /\ ref'.ac > Len(heap)
             /\ ~err' => ref'.vel > Len(heap) /\ ref'.disp > Len(heap)]_vars

\* C20: after mdl was assigned on a model with a beta_single or beta_dual
\* envelope, the envelope is exactly zero at every sample with t = 0 or t = tn,
\* and every sample that is not a forced zero is a density value taken at a
\* time strictly inside (0, tn), whatever tn is relative to the last sample.
C20_BetaEndpointsZero ==
    (last.op = "set" /\ ~err /\ funcs["mdl"].name \in {"beta_single", "beta_dual"}) =>
        LET t == get_time(npts, dt)
            p == params["mdl"].val
            tn == p[Len(p)]
        IN  \A i \in 1..Len(series["mdl"]) :
               /\ (t[i] = 0 \/ t[i] = tn) => series["mdl"][i] = Zero
               /\ series["mdl"][i] # Zero =>
                     /\ 0 < t[i] /\ t[i] < tn
                     /\ series["mdl"][i] =
                            [density |-> funcs["mdl"].name, t |-> t[i], params |-> p]

\* the getter of each rate curve, and the moment pair (numerator, denominator)
\* of the local-extrema and of the zero-crossing rate of each response type
CurveOf ==
    [get_mle_ac |-> "mle_ac", get_mle_vel |-> "mle_vel", get_mle_disp |-> "mle_disp",
     get_mzc_ac |-> "mzc_ac", get_mzc_vel |-> "mzc_vel", get_mzc_disp |-> "mzc_disp",
     get_pmnm_ac |-> "pmnm_ac", get_pmnm_vel |-> "pmnm_vel", get_pmnm_disp |-> "pmnm_disp"]
ExtremaPair ==
    [ac |-> <<"variance_2dot", "variance_dot">>, vel |-> <<"variance_dot", "variance">>,
     disp |-> <<"variance", "variance_bar">>]
CrossingPair ==
    [ac |-> <<"variance_dot", "variance">>, vel |-> <<"variance", "variance_bar">>,
     disp |-> <<"variance_bar", "variance_2bar">>]
PairRate(pair, v) == Rate(v[pair[1]], v[pair[2]])

\* the curve named c as the running sum, scaled by d, of its rate on the moments v
RefCurve(c, v, d) ==
    LET r == CHOOSE x \in {"ac", "vel", "disp"} :
                 c \in {"mle_" \o x, "mzc_" \o x, "pmnm_" \o x}
    IN  CumSum(IF c = "mle_" \o r THEN PairRate(ExtremaPair[r], v)
               ELSE IF c = "mzc_" \o r THEN PairRate(CrossingPair[r], v)
               ELSE HalfDiff(PairRate(ExtremaPair[r], v), PairRate(CrossingPair[r], v)), d)

\* half the difference of two cumulative curves, sample by sample
HalfCurveDiff(x, y) ==
    [i \in 1..Len(x) |->
        IF "cumsum" \in DOMAIN x[i] /\ "cumsum" \in DOMAIN y[i]
        THEN [cumsum |-> HalfDiff(x[i].cumsum, y[i].cumsum), dt |-> x[i].dt]
        ELSE IF x[i] = Zero /\ y[i] = Zero THEN Zero ELSE NaN]

\* C21: a rate getter stores the running sum, scaled by dt, of the rate of
\* its moment pair on the variances held when it is called; get_properties
\* stores all nine from the variances it has just computed, and then mzc_ac
\* equals mle_vel, mzc_vel equals mle_disp, and each pmnm curve is half the
\* difference of the mle and mzc curves of its response type, not clamped.
C21_RatesFromMomentPairs ==
    [][/\ (last'.op \in DOMAIN CurveOf /\ steps' # steps) =>
             pub'[CurveOf[last'.op]] = Some(RefCurve(CurveOf[last'.op], variance, dt))
       /\ (last'.op = "get_properties" /\ steps' # steps) =>
             /\ \A c \in Curves : pub'[c] = Some(RefCurve(c, variance', dt))
             /\ pub'["mzc_ac"] = pub'["mle_vel"]
             /\ pub'["mzc_vel"] = pub'["mle_disp"]
             /\ \A r \in {"ac", "vel", "disp"} :
                   pub'["pmnm_" \o r].val =
                       HalfCurveDiff(pub'["mle_" \o r].val, pub'["mzc_" \o r].val)]_vars

\* C21 witness: get_properties ran after wu was assigned, and the pmnm curve
\* of the acceleration is a running sum of half differences of two rates
C21_Witness ==
    /\ last.op = "get_properties" /\ params["wu"].set /\ ~err
    /\ "cumsum" \in DOMAIN pub["pmnm_ac"].val[1]
    /\ "half_diff" \in DOMAIN pub["pmnm_ac"].val[1].cumsum[1]
    /\ pub["mle_ac"] # pub["mzc_ac"]

\* C22: get_properties invokes get_stats exactly once; it leaves the five
\* variance arrays equal to the moments of the wu, zu, wl, zl stored when it
\* is called over the current freq axis, leaves the series as they were, and
\* every rate curve it stores is built from those new variances: the moments
\* are computed before the first rate and are not replaced afterwards.
C22_PropertiesFromFreshStats ==
    [][(last'.op = "get_properties" /\ steps' # steps) =>
          /\ stats_calls' = 1
          /\ series' = series
          /\ variance' = filter_engine_get_stats(series["wu"], series["zu"],
                             series["wl"], series["zl"], get_freq(npts, dt))
          /\ \A m \in Moments : ~AllZero(variance'[m])
          /\ \A c \in Curves :
                /\ pub'[c] = Some(RefCurve(c, variance', dt))
                /\ \A i \in 1..Len(pub'[c].val) : pub'[c].val[i] # NaN]_vars

\* C22 witness: wu and zu were assigned, which zeroed the variances, and
\* get_properties then stored curves that are running sums of rates
C22_Witness ==
    /\ last.op = "get_properties" /\ ~err /\ steps >= 3 /\ stats_calls = 1
    /\ params["wu"].set /\ params["zu"].set
    /\ \A c \in Curves : pub[c].set /\ "cumsum" \in DOMAIN pub[c].val[1]

\* C23: simulate(n) with n >= 1 hands the inverse transform spectra for vel
\* and disp that hold every coefficient of an acceleration bin k >= 1 at the
\* position the transform reads as bin k, divided by the frequency of bin k,
\* and nothing is taken from bin 0 or divided by freq_sim[0].
C23_BinsKeepIndex ==
    (last.op = "simulate" /\ last.n >= 1) =>
        \A e \in {vel, disp} :
            /\ e.set
            /\ e.val.spectrum.over.set
            /\ \A k \in 1..(Len(e.val.fourier.freq_sim) - 1) :
                  \E j \in 0..(e.val.spectrum.count - 1) :
                      /\ j = k /\ j \notin e.val.spectrum.zeroed
                      /\ e.val.spectrum.from + j = k
                      /\ e.val.spectrum.over.val + j = k
            /\ \A j \in 0..(e.val.spectrum.count - 1) :
                  (e.val.spectrum.from + j = 0 \/ e.val.spectrum.over.val + j = 0)
                      => j \in e.val.spectrum.zeroed

\* the array a feature is computed on, by the suffix of its name
ArrayOf(f) ==
    IF f \in {"mle_vel", "mzc_vel", "pmnm_vel", "pgv"} THEN vel.val
    ELSE IF f \in {"mle_disp", "mzc_disp", "pmnm_disp", "pgd"} THEN disp.val
    ELSE ac.val

\* the value of feature f on the arrays, npts and dt now stored, with the
\* band selection m and the period axis p
FeatureOf(f, m, p) ==
    CASE f = "fas" -> Primitive("get_fas", <<npts, ac.val>>)
      [] f = "fas_star" ->
            Primitive("moving_average", <<Primitive("get_fas", <<npts, ac.val>>), m>>)
      [] f = "ce" -> Primitive("get_ce", <<dt, ac.val>>)
      [] f \in {"sd", "sv", "sa"} -> Primitive(f, <<dt, ac.val, p>>)
      [] f = "energy_mask" -> get_energy_mask(dt, ac.val, DefaultEnergyRange)
      [] OTHER -> Primitive(f, <<ArrayOf(f)>>)

\* C24 as stated: a completed set_range, filter or resample leaves every
\* cached feature empty, and between two such operations each feature is
\* computed at most once: no other step stores a feature that is stored.
C24_ComputedAtMostOnce ==
    [][/\ (last'.op \in {"set_range", "filter", "resample"} /\ ~err' /\ steps' # steps) =>
             \A f \in Features : ~priv'[f].set
       /\ (last'.op \notin {"set_range", "filter", "resample"} /\ steps' # steps) =>
             \A g \in Features : priv[g].set => priv'[g] = priv[g]]_vars

\* C24 amended: a completed set_range, filter or resample leaves every cached
\* feature empty; a read, alone or within save_simulations or a plot function,
\* changes neither the arrays nor a feature that is stored, and a feature it
\* stores is the value on the ac, vel, disp, npts and dt now held; an
\* assignment to energy_mask stores the mask of the assigned range on the ac
\* now held, each time it is made, and changes no other feature.
C24_FeaturesResetAndCachedOnce ==
    [][/\ (last'.op \in {"set_range", "filter", "resample"} /\ ~err' /\ steps' # steps) =>
             \A f \in Features : ~priv'[f].set
       /\ (last'.op \in {"feature", "save", "plot", "plot_ac_ce"} /\ steps' # steps) =>
             /\ ac' = ac /\ vel' = vel /\ disp' = disp /\ npts' = npts /\ dt' = dt
             /\ \A g \in Features :
                    /\ priv[g].set => priv'[g] = priv[g]
                    /\ (~priv[g].set /\ priv'[g].set) =>
                          priv'[g].val =
                              FeatureOf(g, get_freq_mask(get_freq(npts, dt), DefaultBand),
                                        arange(DefaultPeriods))
             /\ last'.op = "feature" => priv'[last'.q].set
       /\ (last'.op = "energy_mask" /\ steps' # steps) =>
             /\ ac' = ac /\ vel' = vel /\ disp' = disp /\ npts' = npts /\ dt' = dt
             /\ priv'["energy_mask"] = Some(get_energy_mask(dt, ac.val, last'.n))
             /\ \A g \in Features \ {"energy_mask"} : priv'[g] = priv[g]]_vars

\* C24 witness: the motion was filtered, energy_mask was then assigned the
\* range (0.5, 1.0), and a read of energy_mask returned the mask of that range
\* on the filtered acceleration, which is not the mask of the default range
C24_Witness ==
    /\ last.op = "feature" /\ last.q = "energy_mask" /\ steps >= 3 /\ ~err
    /\ ac.val # [i \in 1..Len(ac.val) |-> i]
    /\ vel.val = get_integral(dt, ac.val)
    /\ priv["energy_mask"] = Some(get_energy_mask(dt, ac.val, <<500, 1000>>))
    /\ priv["energy_mask"].val # get_energy_mask(dt, ac.val, DefaultEnergyRange)

\* out holds exactly the samples of a that mask selects, in their order
IsSelection(out, a, mask) ==
    /\ Len(out) = Cardinality({i \in 1..Len(mask) : mask[i]})
    /\ \A i \in 1..Len(mask) :
          mask[i] => out[Cardinality({j \in 1..i : mask[j]})] = a[i]

\* the grid caches of the claim
GridCaches == {"t", "freq", "freq_sim", "freq_mask"}

\* C25: a completed set_range, with the mask as passed or with the energy mask
\* of the passed range on the acceleration held before the call, leaves npts
\* equal to the number of selected samples, ac, vel and disp equal to their
\* selected samples in order, and the grid caches t, freq, freq_sim and
\* freq_mask discarded; a read fills a grid cache from the npts then stored.
C25_RangeSelectsSamples ==
    [][/\ (last'.op = "set_range" /\ ~err' /\ steps' # steps) =>
             LET mask == IF Lower(last'.q) = "mask" THEN last'.n
                         ELSE get_energy_mask(dt, ac.val, last'.n)
             IN  /\ npts' = Cardinality({i \in 1..Len(mask) : mask[i]})
                 /\ IsSelection(ac'.val, ac.val, mask)
                 /\ IsSelection(vel'.val, vel.val, mask)
                 /\ IsSelection(disp'.val, disp.val, mask)
                 /\ \A c \in GridCaches : ~cache'[c].set
       /\ (last'.op = "read" /\ steps' # steps) =>
             /\ npts' = npts /\ dt' = dt
             /\ cache'["t"].set => cache'["t"].val = get_time(npts, dt)
             /\ cache'["freq"].set => cache'["freq"].val = get_freq(npts, dt)
             /\ cache'["freq_sim"].set =>
                    cache'["freq_sim"].val = get_freq(npts_sim(npts), dt)
             /\ cache'["freq_mask"].set =>
                    cache'["freq_mask"].val =
                        get_freq_mask(get_freq(npts, dt), DefaultBand)]_vars

\* C25 witness: set_range with the energy range (0.5, 1.0) kept the last
\* sample only of a three-sample motion, and freq_sim was read afterwards and
\* is the axis of one sample
C25_Witness ==
    /\ last.op = "read" /\ ~err /\ npts = 1
    /\ ac = Some(<<3>>) /\ vel = Some(<<13>>) /\ disp = Some(<<23>>)
    /\ cache["freq_sim"] = Some(get_freq(npts_sim(1), dt))
    /\ ~cache["t"].set

\* C26: the freq_mask setter stores the selection of the passed band over the
\* current freq axis and the tp setter the periods of the passed range; no
\* step other than an assignment of npts or dt, or the setter itself, changes
\* a stored selection or period axis, so every later read returns it; an
\* assignment of npts or dt discards both, and a read that then fills them
\* stores the band 0.1 to 25 Hz over the new freq axis and the periods from
\* 0.04 to 10.04 in steps of 0.01.
C26_CustomBandUntilRegrid ==
    [][/\ last'.op = "freq_mask" =>
             cache'["freq_mask"] = Some(get_freq_mask(get_freq(npts, dt), last'.q))
       /\ last'.op = "tp" => cache'["tp"] = Some(arange(last'.q))
       /\ (last'.op \notin {"npts", "dt", "freq_mask"} /\ cache["freq_mask"].set) =>
             cache'["freq_mask"] = cache["freq_mask"]
       /\ (last'.op \notin {"npts", "dt", "tp"} /\ cache["tp"].set) =>
             cache'["tp"] = cache["tp"]
       /\ last'.op \in {"npts", "dt"} => ~cache'["freq_mask"].set /\ ~cache'["tp"].set
       /\ (last'.op = "read" /\ ~cache["freq_mask"].set /\ cache'["freq_mask"].set) =>
             cache'["freq_mask"].val = get_freq_mask(get_freq(npts, dt), <<1, 250>>)
       /\ (last'.op = "read" /\ ~cache["tp"].set /\ cache'["tp"].set) =>
             cache'["tp"].val = arange(<<4, 1004, 1>>)]_vars

\* C26 witness: after an assignment of npts or dt discarded filled caches, a
\* read stored the default band on a grid where the band 50 to 100 Hz selects
\* other bins, while the period axis holds a custom range
C26_Witness ==
    /\ last.op = "read" /\ last.n = 2 /\ npts > 0 /\ dt > 0
    /\ cache["freq_mask"] = Some(get_freq_mask(get_freq(npts, dt), <<1, 250>>))
    /\ cache["freq_mask"].val # get_freq_mask(get_freq(npts, dt), <<500, 1000>>)
    /\ cache["tp"] = Some(arange(<<10, 20, 5>>))

====
